---- MODULE Spec2Model ----
(***************************************************************************)
(* Target resolution (fallback chain) and bounded-concurrency screenshot   *)
(* capture of the xingrin scan backend.                                    *)
(*                                                                         *)
(*   SpecResolve : get_urls_with_fallback driving _iter_urls_with_fallback *)
(*                 (apps/scan/services/target_export_service.py)           *)
(*   SpecCapture : _capture_and_save_screenshots consuming capture_batch   *)
(*                 (apps/scan/tasks/screenshot/capture_screenshots_task.py,*)
(*                  apps/asset/services/playwright_screenshot_service.py)  *)
(***************************************************************************)
EXTENDS Integers, Sequences, FiniteSets, TLC

\* ------------------------------------------------------------------ bounds
MaxSources == 3
MaxRows == 2
MaxUrls == 2
MaxConcurrency == 2
MaxPolls == 3
MaxSyncs == 2
MaxHosts == 2

\* --------------------------------------------------------------- DataSource
ENDPOINT == "endpoint"
WEBSITE == "website"
HOST_PORT == "host_port"
DEFAULT == "default"

DataSourceIds == {ENDPOINT, WEBSITE, HOST_PORT, DEFAULT}

QueryTables == {ENDPOINT, WEBSITE}

\* ------------------------------------------------------------------ helpers
RECURSIVE Pow2(_)
Pow2(n) == IF n = 0 THEN 1 ELSE 2 * Pow2(n - 1)

SeqsUpTo(S, n) == UNION {[1..k -> S] : k \in 0..n}

RECURSIVE Flatten(_)
Flatten(ss) == IF ss = <<>> THEN <<>> ELSE Head(ss) \o Flatten(Tail(ss))

IsPrefix(s, t) == Len(s) <= Len(t) /\ SubSeq(t, 1, Len(s)) = s

\* str(ip) of an address of 10.0.0.0/24, the address block the model draws from
IpStr(k) == "10.0.0." \o ToString(k)

\* ----------------------------------------------------------------- targets
\* A row of the Target table: type, name, and for a CIDR name the value
\* ipaddress.ip_network parses from it (addr = last octet as written, len =
\* prefix length; valid = FALSE when ip_network raises ValueError).
TargetRow(t, n, v, a, l) ==
    [exists |-> TRUE, type |-> t, name |-> n, valid |-> v, addr |-> a, len |-> l]

NoTarget ==
    [exists |-> FALSE, type |-> "NONE", name |-> "", valid |-> FALSE, addr |-> 0, len |-> 0]

CidrTarget(a, l) == TargetRow("CIDR", IpStr(a) \o "/" \o ToString(l), l <= 32, a, l)

Targets ==
    { TargetRow("DOMAIN", "example.com", FALSE, 0, 0),
      TargetRow("IP", "10.0.0.1", FALSE, 0, 0),
      TargetRow("URL", "http://example.com/login", FALSE, 0, 0),
      TargetRow("OTHER", "misc", FALSE, 0, 0),
      CidrTarget(0, 30), CidrTarget(2, 31), CidrTarget(1, 32), CidrTarget(0, 33) }

\* ipaddress.ip_network(name, strict=False): host bits of the address are masked
NetworkAddress(t) ==
    LET size == Pow2(32 - t.len) IN (t.addr \div size) * size

NumAddresses(t) == Pow2(32 - t.len)

\* IPv4Network.hosts(): all addresses but network and broadcast; both
\* addresses of a /31; the single address of a /32
NetworkHosts(t) ==
    LET base == NetworkAddress(t)
        n == NumAddresses(t)
    IN  IF n = 1 THEN <<base>>
        ELSE IF n = 2 THEN <<base, base + 1>>
        ELSE [i \in 1..(n - 2) |-> base + i]

\* variant of DefaultUrlList that walks every address of a CIDR block (the
\* network itself instead of network.hosts())
DefaultUrlList_AllAddresses(t) ==
    IF ~t.exists THEN <<>>
    ELSE IF t.type \in {"DOMAIN", "IP"}
        THEN <<"http://" \o t.name, "https://" \o t.name>>
    ELSE IF t.type = "CIDR"
        THEN IF ~t.valid THEN <<>>
             ELSE Flatten([i \in 1..NumAddresses(t) |->
                    <<"http://" \o IpStr(NetworkAddress(t) + i - 1),
                      "https://" \o IpStr(NetworkAddress(t) + i - 1)>>])
    ELSE IF t.type = "URL" THEN <<t.name>>
    ELSE <<>>

\* the urls list _iter_default_urls_from_target builds before filtering
DefaultUrlList(t) ==
    IF ~t.exists THEN <<>>
    ELSE IF t.type \in {"DOMAIN", "IP"}
        THEN <<"http://" \o t.name, "https://" \o t.name>>
    ELSE IF t.type = "CIDR"
        THEN IF ~t.valid THEN <<>>
             ELSE LET hs == NetworkHosts(t)
                      us == Flatten([i \in 1..Len(hs) |->
                                <<"http://" \o IpStr(hs[i]), "https://" \o IpStr(hs[i])>>])
                  IN  IF us = <<>>
                      THEN <<"http://" \o IpStr(NetworkAddress(t)),
                             "https://" \o IpStr(NetworkAddress(t))>>
                      ELSE us
    ELSE IF t.type = "URL" THEN <<t.name>>
    ELSE <<>>

\* --------------------------------------------------------------- blacklist
\* Rows of the Endpoint / WebSite tables carry these url values ("" stands
\* for an empty or NULL url).
RowUrls == {"", "http://a.example.com/x", "https://b.org/y"}

HostNames == {"example.com"} \cup {IpStr(k) : k \in 0..3}

\* A blacklist rule is a regular expression; over the strings of the model
\* its search semantics is the set of strings it matches somewhere.
Patterns == {"^http://", "\\.org/", "10\\.0\\.0\\.1$"}

PatternMatches(p) ==
    CASE p = "^http://" ->
            {"http://a.example.com/x", "http://example.com/login"}
                \cup {"http://" \o h : h \in HostNames}
      [] p = "\\.org/" -> {"https://b.org/y"}
      [] p = "10\\.0\\.0\\.1$" -> {"10.0.0.1", "http://10.0.0.1", "https://10.0.0.1"}
      [] p = "10\\.0\\.0\\.0$" -> {"10.0.0.0", "http://10.0.0.0", "https://10.0.0.0"}
      [] p = "10\\.0\\.0\\.2$" -> {"10.0.0.2", "http://10.0.0.2", "https://10.0.0.2"}

\* BlacklistFilter.is_allowed: false iff some rule matches the candidate
is_allowed(rs, candidate) == \A p \in rs : candidate \notin PatternMatches(p)

\* ------------------------------------------------------------------- state
VARIABLES
    sources,        \* resolver argument: data source priority list
    target,         \* the Target row of target_id (NoTarget when absent)
    rules,          \* blacklist rules loaded for the target
    db,             \* rows of the Endpoint / WebSite tables, once queried
    loaded,         \* tables whose queryset has been evaluated
    rpc,            \* position of the resolver
    idx,            \* index in sources of the source being tried
    cur,            \* the candidate sequence being iterated
    pos,            \* next index in cur
    has_raw_data,
    has_output,
    tried_sources,
    yielded,        \* (url, source) pairs yielded so far; at = index of the source in sources
    urls,
    actual_source,
    result,
    sink_lines,     \* lines written to the output file by export_urls_with_fallback
    sink_count,     \* its total_count
    sink_source,    \* its actual_source
    export_result,  \* its return value
    capture_urls,   \* capture task argument: the urls to screenshot
    concurrency,    \* config['concurrency']
    browser,        \* "none", "open", "closed"
    context,        \* the shared BrowserContext: "none", "open", "closed"
    bpc,            \* position of capture_screenshots_task / capture_batch
    error,          \* what raised out of the batch ("" when nothing did)
    permits,        \* value of the asyncio.Semaphore
    tasks,          \* per url index: position and locals of _capture_with_semaphore
    completed,      \* indices of completed tasks not yet taken by as_completed
    emitted,        \* per url index: how many results capture_batch has yielded for it
    cpc,            \* position of the consumer loop: "idle", "saving", "backoff"
    current,        \* index of the result being persisted
    attempt,        \* loop variable of _save_screenshot_with_retry
    save_log,       \* outcomes of the save calls of the latest wrapper invocation
    save_ret,       \* return value of the latest wrapper invocation
    sleeps,         \* time.sleep arguments of the latest wrapper invocation
    outcome,        \* per url index: how the consumer disposed of its result
    total,
    successful,
    failed,
    snapshots,      \* ScreenshotSnapshot rows of this scan
    stats,          \* return value of the capture task
    fpc,            \* position of screenshot_flow ("idle" outside a flow run)
    url_sources,    \* enabled_tools['playwright']['url_sources']
    load,           \* the latest (cpu, mem) sample of wait_for_system_load
    polls,          \* samples taken by wait_for_system_load so far
    assets,         \* Screenshot rows of the target
    assets_loaded,  \* whether the Screenshot table has been read or written yet
    spc,            \* position of sync_screenshots_to_asset: "idle", "rows"
    sync_rows,      \* snapshot rows the sync loop has not visited yet
    count,          \* local counter of sync_screenshots_to_asset
    synced,         \* return value of the latest sync call (-1 before any)
    syncs,          \* sync calls started so far (the clock of updated_at)
    prev_assets,    \* the Screenshot table when the latest sync call began
    prev_synced,    \* return value of the sync call before the latest
    flow_result,    \* return value of screenshot_flow
    raw_hosts,      \* what a provider's _iter_raw_hosts yields
    hpc,            \* position of iter_hosts: "idle", "loop", "done"
    hpos,           \* next index in raw_hosts
    expanded,       \* per raw host visited, the hosts _expand_host yielded for it
    provider,       \* whose iter_hosts runs: "none", "base", "database"
    host_rules,     \* rules of the provider's get_blacklist_filter
    written,        \* the lines export_hosts_task wrote, in order
    target_name,    \* _export_cidr: the name of the CIDR target
    blacklist_filter, \* rules of TargetExportService.blacklist_filter
    epc,            \* position of _export_cidr: "idle", "start", "hosts", "raised", "returned"
    epos,           \* next index in network.hosts()
    output_lines,   \* lines of the output file
    host_count,     \* total_count of _export_cidr
    img,            \* _compress_image: the image (mode, width, height)
    target_kb,      \* ScreenshotService.target_kb
    zpc,            \* position of _compress_image: "idle", "start", "loop", "returned"
    quality,        \* _compress_image: the loop variable
    encodings,      \* the img.save calls so far: quality, size of the buffer, raised or not
    webp            \* what _compress_image returned

rvars == <<sources, target, rules, db, loaded, rpc, idx, cur, pos,
           has_raw_data, has_output, tried_sources, yielded, urls,
           actual_source, result, sink_lines, sink_count, sink_source, export_result>>

cvars == <<capture_urls, concurrency, browser, context, bpc, error, permits, tasks,
           completed, emitted, cpc, current, attempt, save_log, save_ret, sleeps,
           outcome, total, successful, failed, snapshots, stats>>

fvars == <<fpc, url_sources, load, polls, assets, assets_loaded, spc, sync_rows, count,
           synced, syncs, prev_assets, prev_synced, flow_result>>

evars == <<target_name, blacklist_filter, epc, epos, output_lines, host_count>>

hvars == <<raw_hosts, hpc, hpos, expanded, provider, host_rules, written, evars>>

zvars == <<img, target_kb, zpc, quality, encodings, webp>>

xvars == <<fvars, hvars, zvars>>

vars == <<rvars, cvars, xvars>>

NoStats == [total |-> -1, successful |-> -1, failed |-> -1]

NoLoad == [cpu |-> -1, mem |-> -1]

NoFlowResult ==
    [success |-> FALSE, total_urls |-> -1, successful |-> -1, failed |-> -1, synced |-> -1]

\* the flow and sync side while no flow runs
IdleFlow ==
    /\ fpc = "idle"
    /\ url_sources = <<>>
    /\ load = NoLoad
    /\ polls = 0
    /\ assets = {}
    /\ assets_loaded = FALSE
    /\ spc = "idle"
    /\ sync_rows = {}
    /\ count = 0
    /\ synced = -1
    /\ syncs = 0
    /\ prev_assets = {}
    /\ prev_synced = -1
    /\ flow_result = NoFlowResult

\* TargetExportService while no host export runs
IdleExport ==
    /\ target_name = ""
    /\ blacklist_filter = {}
    /\ epc = "idle"
    /\ epos = 1
    /\ output_lines = <<>>
    /\ host_count = 0

\* the provider side while no host iteration runs
IdleHosts ==
    /\ IdleExport
    /\ raw_hosts = <<>>
    /\ hpc = "idle"
    /\ hpos = 1
    /\ expanded = <<>>
    /\ provider = "none"
    /\ host_rules = {}
    /\ written = <<>>

NoImage == [mode |-> "", width |-> 0, height |-> 0]

\* what _compress_image has not returned yet
NoWebp == [kind |-> "pending", quality |-> 0, size |-> 0]

\* the compressor while no image is being compressed
IdleCompress ==
    /\ img = NoImage
    /\ target_kb = 0
    /\ zpc = "idle"
    /\ quality = 0
    /\ encodings = <<>>
    /\ webp = NoWebp

\* the capture side before capture_screenshots_task is called
IdleCapture ==
    /\ capture_urls = <<>>
    /\ concurrency = 0
    /\ browser = "none"
    /\ context = "none"
    /\ bpc = "start"
    /\ error = ""
    /\ permits = 0
    /\ tasks = <<>>
    /\ completed = <<>>
    /\ emitted = <<>>
    /\ cpc = "idle"
    /\ current = 0
    /\ attempt = 0
    /\ save_log = <<>>
    /\ save_ret = "none"
    /\ sleeps = <<>>
    /\ outcome = <<>>
    /\ total = 0
    /\ successful = 0
    /\ failed = 0
    /\ snapshots = {}
    /\ stats = NoStats

NoResult == [urls |-> <<>>, total_count |-> -1, source |-> "", tried_sources |-> <<>>]

\* export_urls_with_fallback has not returned
NoExport == [total_count |-> -1, source |-> "", tried_sources |-> <<>>]

\* ---------------------------------------------------------------- resolver
InitResolve ==
    /\ IdleCapture
    /\ IdleFlow
    /\ IdleHosts
    /\ IdleCompress
    /\ sources \in SeqsUpTo(DataSourceIds, MaxSources)
    /\ target \in Targets \cup {NoTarget}
    /\ rules \in SUBSET Patterns
    /\ db = [t \in QueryTables |-> <<>>]
    /\ loaded = {}
    /\ rpc = "loop"
    /\ idx = 0
    /\ cur = <<>>
    /\ pos = 1
    /\ has_raw_data = FALSE
    /\ has_output = FALSE
    /\ tried_sources = <<>>
    /\ yielded = <<>>
    /\ urls = <<>>
    /\ actual_source = "none"
    /\ result = NoResult
    /\ sink_lines = <<>>
    /\ sink_count = 0
    /\ sink_source = "none"
    /\ export_result = NoExport

\* for source in sources: the source is DEFAULT
StartDefault ==
    /\ rpc = "loop"
    /\ idx < Len(sources)
    /\ sources[idx + 1] = DEFAULT
    /\ idx' = idx + 1
    /\ tried_sources' = Append(tried_sources, DEFAULT)
    /\ has_output' = FALSE
    /\ has_raw_data' = FALSE
    /\ cur' = DefaultUrlList(target)
    /\ pos' = 1
    /\ rpc' = "default"
    /\ UNCHANGED <<cvars, xvars>>
    /\ UNCHANGED <<sources, target, rules, db, loaded, yielded, urls, actual_source, result,
                   sink_lines, sink_count, sink_source, export_result>>

\* for source in sources: the source is ENDPOINT or WEBSITE; the queryset is
\* evaluated (the table's rows are whatever the database holds)
StartQuery ==
    /\ rpc = "loop"
    /\ idx < Len(sources)
    /\ sources[idx + 1] \in QueryTables
    /\ LET s == sources[idx + 1] IN
        /\ \E rows \in SeqsUpTo(RowUrls, MaxRows) :
            /\ s \in loaded => rows = db[s]
            /\ db' = [db EXCEPT ![s] = rows]
            /\ cur' = rows
        /\ loaded' = loaded \cup {s}
        /\ tried_sources' = Append(tried_sources, s)
    /\ idx' = idx + 1
    /\ has_output' = FALSE
    /\ has_raw_data' = FALSE
    /\ pos' = 1
    /\ rpc' = "rows"
    /\ UNCHANGED <<cvars, xvars>>
    /\ UNCHANGED <<sources, target, rules, yielded, urls, actual_source, result,
                   sink_lines, sink_count, sink_source, export_result>>

\* for source in sources: unknown source type, skipped
SkipUnknown ==
    /\ rpc = "loop"
    /\ idx < Len(sources)
    /\ sources[idx + 1] \notin QueryTables \cup {DEFAULT}
    /\ idx' = idx + 1
    /\ tried_sources' = Append(tried_sources, sources[idx + 1])
    /\ has_output' = FALSE
    /\ has_raw_data' = FALSE
    /\ UNCHANGED <<cvars, xvars>>
    /\ UNCHANGED <<sources, target, rules, db, loaded, rpc, cur, pos, yielded, urls,
                   actual_source, result, sink_lines, sink_count, sink_source,
                   export_result>>

\* variant of Consume whose output file keeps one line per distinct url
Consume_SinkDedups(url, source) ==
    /\ yielded' = Append(yielded, [url |-> url, source |-> source, at |-> idx])
    /\ urls' = Append(urls, url)
    /\ actual_source' = source
    /\ IF \E k \in 1..Len(sink_lines) : sink_lines[k] = url
       THEN UNCHANGED <<sink_lines, sink_count>>
       ELSE /\ sink_lines' = Append(sink_lines, url)
            /\ sink_count' = sink_count + 1
    /\ sink_source' = source

\* the consumers' loop bodies, run on the same generator output: urls.append in
\* get_urls_with_fallback, and f.write(url + newline) with total_count += 1 in
\* export_urls_with_fallback; each write is one line of the file
Consume(url, source) ==
    /\ yielded' = Append(yielded, [url |-> url, source |-> source, at |-> idx])
    /\ urls' = Append(urls, url)
    /\ actual_source' = source
    /\ sink_lines' = Append(sink_lines, url)
    /\ sink_count' = sink_count + 1
    /\ sink_source' = source

\* variant of RowStep that takes every row as raw data and yields it
RowStep_AnyRow ==
    /\ rpc = "rows"
    /\ pos <= Len(cur)
    /\ LET url == cur[pos] IN
        /\ has_raw_data' = TRUE
        /\ IF ~is_allowed(rules, url)
           THEN UNCHANGED <<has_output, yielded, urls, actual_source,
                            sink_lines, sink_count, sink_source>>
           ELSE /\ has_output' = TRUE
                /\ Consume(url, sources[idx])
    /\ pos' = pos + 1
    /\ UNCHANGED <<cvars, xvars>>
    /\ UNCHANGED <<sources, target, rules, db, loaded, rpc, idx, cur, tried_sources, result,
                   export_result>>

\* one row of queryset.iterator()
RowStep ==
    /\ rpc = "rows"
    /\ pos <= Len(cur)
    /\ LET url == cur[pos] IN
        IF url # ""
        THEN /\ has_raw_data' = TRUE
             /\ IF ~is_allowed(rules, url)
                THEN UNCHANGED <<has_output, yielded, urls, actual_source,
                            sink_lines, sink_count, sink_source>>
                ELSE /\ has_output' = TRUE
                     /\ Consume(url, sources[idx])
        ELSE UNCHANGED <<has_raw_data, has_output, yielded, urls, actual_source,
                            sink_lines, sink_count, sink_source>>
    /\ pos' = pos + 1
    /\ UNCHANGED <<cvars, xvars>>
    /\ UNCHANGED <<sources, target, rules, db, loaded, rpc, idx, cur, tried_sources, result,
                   export_result>>

\* variant of EndRows that stops only when some url passed the filter
EndRows_StopOnOutput ==
    /\ rpc = "rows"
    /\ pos > Len(cur)
    /\ rpc' = IF has_output THEN "done" ELSE "loop"
    /\ UNCHANGED <<cvars, xvars>>
    /\ UNCHANGED <<sources, target, rules, db, loaded, idx, cur, pos, has_raw_data,
                   has_output, tried_sources, yielded, urls, actual_source, result,
                   sink_lines, sink_count, sink_source, export_result>>

\* after the rows: return when the source had raw data, else next source
EndRows ==
    /\ rpc = "rows"
    /\ pos > Len(cur)
    /\ rpc' = IF has_raw_data THEN "done" ELSE "loop"
    /\ UNCHANGED <<cvars, xvars>>
    /\ UNCHANGED <<sources, target, rules, db, loaded, idx, cur, pos, has_raw_data,
                   has_output, tried_sources, yielded, urls, actual_source, result,
                   sink_lines, sink_count, sink_source, export_result>>

\* variant of DefaultStep that yields without asking the blacklist filter
DefaultStep_NoFilter ==
    /\ rpc = "default"
    /\ pos <= Len(cur)
    /\ has_raw_data' = TRUE
    /\ has_output' = TRUE
    /\ Consume(cur[pos], sources[idx])
    /\ pos' = pos + 1
    /\ UNCHANGED <<cvars, xvars>>
    /\ UNCHANGED <<sources, target, rules, db, loaded, rpc, idx, cur, tried_sources, result,
                   export_result>>

\* one url of _iter_default_urls_from_target's list
DefaultStep ==
    /\ rpc = "default"
    /\ pos <= Len(cur)
    /\ LET url == cur[pos] IN
        IF ~is_allowed(rules, url)
        THEN UNCHANGED <<has_raw_data, has_output, yielded, urls, actual_source,
                            sink_lines, sink_count, sink_source>>
        ELSE /\ has_raw_data' = TRUE
             /\ has_output' = TRUE
             /\ Consume(url, sources[idx])
    /\ pos' = pos + 1
    /\ UNCHANGED <<cvars, xvars>>
    /\ UNCHANGED <<sources, target, rules, db, loaded, rpc, idx, cur, tried_sources, result,
                   export_result>>

\* variant of EndDefault that always goes on to the next source
EndDefault_NeverStops ==
    /\ rpc = "default"
    /\ pos > Len(cur)
    /\ has_raw_data' = IF has_raw_data THEN TRUE ELSE target.exists
    /\ rpc' = "loop"
    /\ UNCHANGED <<cvars, xvars>>
    /\ UNCHANGED <<sources, target, rules, db, loaded, idx, cur, pos,
                   has_output, tried_sources, yielded, urls, actual_source, result,
                   sink_lines, sink_count, sink_source, export_result>>

\* variant of EndDefault that ends the chain whether or not the target exists
EndDefault_AlwaysStops ==
    /\ rpc = "default"
    /\ pos > Len(cur)
    /\ has_raw_data' = IF has_raw_data THEN TRUE ELSE target.exists
    /\ rpc' = "done"
    /\ UNCHANGED <<cvars, xvars>>
    /\ UNCHANGED <<sources, target, rules, db, loaded, idx, cur, pos,
                   has_output, tried_sources, yielded, urls, actual_source, result,
                   sink_lines, sink_count, sink_source, export_result>>

\* after the default urls: look the target up again when nothing was yielded
EndDefault ==
    /\ rpc = "default"
    /\ pos > Len(cur)
    /\ has_raw_data' = IF has_raw_data THEN TRUE ELSE target.exists
    /\ rpc' = IF has_raw_data' THEN "done" ELSE "loop"
    /\ UNCHANGED <<cvars, xvars>>
    /\ UNCHANGED <<sources, target, rules, db, loaded, idx, cur, pos,
                   has_output, tried_sources, yielded, urls, actual_source, result,
                   sink_lines, sink_count, sink_source, export_result>>

\* the source list is exhausted
Exhausted ==
    /\ rpc = "loop"
    /\ idx = Len(sources)
    /\ rpc' = "done"
    /\ UNCHANGED <<cvars, xvars>>
    /\ UNCHANGED <<sources, target, rules, db, loaded, idx, cur, pos, has_raw_data,
                   has_output, tried_sources, yielded, urls, actual_source, result,
                   sink_lines, sink_count, sink_source, export_result>>

\* get_urls_with_fallback and export_urls_with_fallback build their return values
ReturnResult ==
    /\ rpc = "done"
    /\ result' = [urls |-> urls, total_count |-> Len(urls), source |-> actual_source,
                  tried_sources |-> tried_sources]
    /\ export_result' = [total_count |-> sink_count, source |-> sink_source,
                         tried_sources |-> tried_sources]
    /\ rpc' = "returned"
    /\ UNCHANGED <<cvars, xvars>>
    /\ UNCHANGED <<sources, target, rules, db, loaded, idx, cur, pos, has_raw_data,
                   has_output, tried_sources, yielded, urls, actual_source,
                            sink_lines, sink_count, sink_source>>

NextResolve ==
    \/ StartDefault
    \/ StartQuery
    \/ SkipUnknown
    \/ RowStep
    \/ EndRows
    \/ DefaultStep
    \/ EndDefault
    \/ Exhausted
    \/ ReturnResult

SpecResolve == InitResolve /\ [][NextResolve]_vars

TypeOKResolve ==
    /\ rpc \in {"loop", "rows", "default", "done", "returned"}
    /\ idx \in 0..Len(sources)
    /\ Len(urls) = Len(yielded)
\* ------------------------------------------------------------ capture engine
\* the resolver side while only the capture task runs
IdleResolve ==
    /\ sources = <<>>
    /\ target = NoTarget
    /\ rules = {}
    /\ db = [t \in QueryTables |-> <<>>]
    /\ loaded = {}
    /\ rpc = "loop"
    /\ idx = 0
    /\ cur = <<>>
    /\ pos = 1
    /\ has_raw_data = FALSE
    /\ has_output = FALSE
    /\ tried_sources = <<>>
    /\ yielded = <<>>
    /\ urls = <<>>
    /\ actual_source = "none"
    /\ result = NoResult
    /\ sink_lines = <<>>
    /\ sink_count = 0
    /\ sink_source = "none"
    /\ export_result = NoExport

\* the urls a submitted list is made of (a list may repeat a url)
UrlPool == {"https://a.test", "https://b.test"}

\* None, for a status code and for image bytes
NoStatus == -1

NoBytes == "None"

HTTP_OK == 200

max_retries == 3

NewTask ==
    [st |-> "waiting", nav |-> "pending", status_code |-> NoStatus,
     bytes |-> NoBytes, status |-> NoStatus]

\* ScreenshotService.compress_from_bytes: None for empty or undecodable bytes
compress_from_bytes(image_bytes) ==
    IF image_bytes = "jpeg" THEN "webp" ELSE NoBytes

\* variant of UpsertSnapshot that keeps an existing row (get_or_create)
UpsertSnapshot_KeepFirst(rows, url, image, status) ==
    IF \E r \in rows : r.url = url
    THEN rows
    ELSE rows \cup {[url |-> url, image |-> image, status_code |-> status]}

\* ScreenshotSnapshot.objects.update_or_create(scan_id, url, defaults)
UpsertSnapshot(rows, url, image, status) ==
    {r \in rows : r.url # url} \cup {[url |-> url, image |-> image, status_code |-> status]}

\* variant of LoopRunning in which the save and its sleeps run on the event
\* loop, which then runs no page task until the save has returned
LoopRunning_SaveOnLoop == bpc \in {"running", "closing_browser"} /\ cpc = "idle"

\* the event loop runs page tasks whenever the batch coroutine is suspended; the
\* save and its time.sleep run in the worker thread of sync_to_async
LoopRunning == bpc \in {"running", "closing_browser"}

InitCapture ==
    /\ IdleResolve
    /\ IdleFlow
    /\ IdleHosts
    /\ IdleCompress
    /\ capture_urls \in SeqsUpTo(UrlPool, MaxUrls)
    /\ concurrency \in (-1)..MaxConcurrency
    /\ browser = "none"
    /\ context = "none"
    /\ bpc = "start"
    /\ error = ""
    /\ permits = 0
    /\ tasks = <<>>
    /\ completed = <<>>
    /\ emitted = <<>>
    /\ cpc = "idle"
    /\ current = 0
    /\ attempt = 0
    /\ save_log = <<>>
    /\ save_ret = "none"
    /\ sleeps = <<>>
    /\ outcome = <<>>
    /\ total = 0
    /\ successful = 0
    /\ failed = 0
    /\ snapshots = {}
    /\ stats = NoStats

\* capture_screenshots_task on an empty url list
SkipEmpty ==
    /\ bpc = "start"
    /\ capture_urls = <<>>
    /\ stats' = [total |-> 0, successful |-> 0, failed |-> 0]
    /\ bpc' = "returned"
    /\ UNCHANGED <<rvars, xvars>>
    /\ UNCHANGED <<capture_urls, concurrency, browser, context, error, permits, tasks,
                   completed, emitted, cpc, current, attempt, save_log, save_ret, sleeps,
                   outcome, total, successful, failed, snapshots>>

\* capture_batch called on an empty url list (as capture_batch_collect may):
\* the generator returns before async_playwright is entered, nothing is yielded
EmptyBatch ==
    /\ bpc = "start"
    /\ capture_urls = <<>>
    /\ bpc' = "batch_empty"
    /\ UNCHANGED <<rvars, xvars>>
    /\ UNCHANGED <<capture_urls, concurrency, browser, context, error, permits, tasks,
                   completed, emitted, cpc, current, attempt, save_log, save_ret, sleeps,
                   outcome, total, successful, failed, snapshots, stats>>

\* _capture_and_save_screenshots starts; capture_batch launches the browser
Launch ==
    /\ bpc = "start"
    /\ capture_urls # <<>>
    /\ total' = Len(capture_urls)
    /\ \E ok \in BOOLEAN :
        IF ok
        THEN browser' = "open" /\ bpc' = "launched" /\ error' = error
        ELSE browser' = browser /\ bpc' = "raised" /\ error' = "launch"
    /\ UNCHANGED <<rvars, xvars>>
    /\ UNCHANGED <<capture_urls, concurrency, context, permits, tasks,
                   completed, emitted, cpc, current, attempt, save_log, save_ret, sleeps,
                   outcome, successful, failed, snapshots, stats>>

\* browser.new_context, asyncio.Semaphore(concurrency), the task list
NewContext ==
    /\ bpc = "launched"
    /\ \E ok \in BOOLEAN :
        IF ~ok
        THEN /\ bpc' = "closing_browser"
             /\ error' = "context"
             /\ UNCHANGED <<context, permits, tasks, outcome, emitted>>
        ELSE /\ context' = "open"
             /\ IF concurrency < 0
                THEN /\ bpc' = "closing_browser"
                     /\ error' = "semaphore"
                     /\ UNCHANGED <<permits, tasks, outcome, emitted>>
                ELSE /\ permits' = concurrency
                     /\ tasks' = [i \in 1..Len(capture_urls) |-> NewTask]
                     /\ outcome' = [i \in 1..Len(capture_urls) |-> "pending"]
                     /\ emitted' = [i \in 1..Len(capture_urls) |-> 0]
                     /\ bpc' = "running"
                     /\ error' = error
    /\ UNCHANGED <<rvars, xvars>>
    /\ UNCHANGED <<capture_urls, concurrency, browser,
                   completed, cpc, current, attempt, save_log, save_ret, sleeps,
                   total, successful, failed, snapshots, stats>>

\* variant of BrowserClosed without the finally clause: the exception leaves
\* capture_batch with the browser still open
BrowserClosed_Skipped ==
    /\ bpc = "closing_browser"
    /\ bpc' = "raised"
    /\ UNCHANGED <<rvars, xvars>>
    /\ UNCHANGED <<capture_urls, concurrency, browser, context, error, permits, tasks,
                   completed, emitted, cpc, current, attempt, save_log, save_ret, sleeps,
                   outcome, total, successful, failed, snapshots, stats>>

\* the finally clause of capture_batch after an exception: browser.close()
BrowserClosed ==
    /\ bpc = "closing_browser"
    /\ browser' = "closed"
    /\ context' = IF context = "open" THEN "closed" ELSE context
    /\ bpc' = "raised"
    /\ UNCHANGED <<rvars, xvars>>
    /\ UNCHANGED <<capture_urls, concurrency, error, permits, tasks,
                   completed, emitted, cpc, current, attempt, save_log, save_ret, sleeps,
                   outcome, total, successful, failed, snapshots, stats>>

TaskStep(i, t) ==
    /\ tasks' = [tasks EXCEPT ![i] = t]
    /\ UNCHANGED <<rvars, xvars>>
    /\ UNCHANGED <<capture_urls, concurrency, browser, context, bpc, error,
                   emitted, cpc, current, attempt, save_log, save_ret, sleeps,
                   outcome, total, successful, failed, snapshots, stats>>

\* variant of Acquire that enters without waiting for a permit
Acquire_Unbounded(i) ==
    /\ LoopRunning
    /\ tasks[i].st = "waiting"
    /\ permits' = IF permits > 0 THEN permits - 1 ELSE 0
    /\ completed' = completed
    /\ TaskStep(i, [tasks[i] EXCEPT !.st = "opening"])

\* async with semaphore: a waiting task takes a permit
Acquire(i) ==
    /\ LoopRunning
    /\ tasks[i].st = "waiting"
    /\ permits > 0
    /\ permits' = permits - 1
    /\ completed' = completed
    /\ TaskStep(i, [tasks[i] EXCEPT !.st = "opening"])

\* context.new_page() returns a page, or raises out of the task
OpenPage(i) ==
    /\ LoopRunning
    /\ tasks[i].st = "opening"
    /\ \E ok \in BOOLEAN :
        IF ok
        THEN /\ permits' = permits
             /\ completed' = completed
             /\ TaskStep(i, [tasks[i] EXCEPT !.st = "navigating"])
        ELSE /\ permits' = permits + 1
             /\ completed' = Append(completed, i)
             /\ TaskStep(i, [tasks[i] EXCEPT !.st = "error"])

\* variant of Goto without the inner try: an exception of page.goto ends the
\* capture of the url without a screenshot and leaves the task
Goto_Propagates(i) ==
    /\ LoopRunning
    /\ tasks[i].st = "navigating"
    /\ \E o \in {"ok", "noresp", "raised"} :
        IF o = "raised"
        THEN /\ permits' = permits + 1
             /\ completed' = Append(completed, i)
             /\ TaskStep(i, [tasks[i] EXCEPT !.st = "error", !.nav = o])
        ELSE /\ UNCHANGED <<permits, completed>>
             /\ TaskStep(i, [tasks[i] EXCEPT !.st = "shooting", !.nav = o,
                                !.status_code = IF o = "ok" THEN HTTP_OK ELSE NoStatus])

\* page.goto: a response with a status, no response, or an exception
Goto(i) ==
    /\ LoopRunning
    /\ tasks[i].st = "navigating"
    /\ UNCHANGED <<permits, completed>>
    /\ \E o \in {"ok", "noresp", "raised"} :
        TaskStep(i, [tasks[i] EXCEPT !.st = "shooting", !.nav = o,
                        !.status_code = IF o = "ok" THEN HTTP_OK ELSE NoStatus])

\* variant of Screenshot that keeps the status seen by goto and lets a
\* screenshot exception leave the task
Screenshot_Propagates(i) ==
    /\ LoopRunning
    /\ tasks[i].st = "shooting"
    /\ \E o \in {"jpeg", "corrupt", NoBytes} :
        IF o = NoBytes /\ tasks[i].nav = "raised"
        THEN /\ permits' = permits + 1
             /\ completed' = Append(completed, i)
             /\ TaskStep(i, [tasks[i] EXCEPT !.st = "error"])
        ELSE /\ UNCHANGED <<permits, completed>>
             /\ TaskStep(i, [tasks[i] EXCEPT !.st = "closing", !.bytes = o,
                                !.status = tasks[i].status_code])

\* variant of Screenshot that navigates again after a failed screenshot
Screenshot_RetryOnFailure(i) ==
    /\ LoopRunning
    /\ tasks[i].st = "shooting"
    /\ UNCHANGED <<permits, completed>>
    /\ \E o \in {"jpeg", "corrupt", NoBytes} :
        IF o = NoBytes
        THEN TaskStep(i, [tasks[i] EXCEPT !.st = "navigating"])
        ELSE TaskStep(i, [tasks[i] EXCEPT !.st = "closing", !.bytes = o,
                            !.status = tasks[i].status_code])

\* page.screenshot: image bytes, or an exception or timeout
Screenshot(i) ==
    /\ LoopRunning
    /\ tasks[i].st = "shooting"
    /\ UNCHANGED <<permits, completed>>
    /\ \E o \in {"jpeg", "corrupt", NoBytes} :
        TaskStep(i, [tasks[i] EXCEPT !.st = "closing", !.bytes = o,
                        !.status = IF o = NoBytes THEN NoStatus ELSE tasks[i].status_code])

\* finally: page.close(); the permit is released and the task returns
\* (url, screenshot_bytes, status_code), its other locals ending with it
ClosePage(i) ==
    /\ LoopRunning
    /\ tasks[i].st = "closing"
    /\ permits' = permits + 1
    /\ completed' = Append(completed, i)
    /\ TaskStep(i, [tasks[i] EXCEPT !.st = "finished", !.nav = "pending",
                        !.status_code = NoStatus])

ConsumerStep ==
    /\ UNCHANGED <<rvars, xvars>>
    /\ UNCHANGED <<capture_urls, concurrency, browser, context, permits, tasks, total, stats>>

\* variant of TakeResult that skips a result whose compression failed without
\* counting it
TakeResult_UncountedCompress ==
    /\ bpc = "running"
    /\ cpc = "idle"
    /\ completed # <<>>
    /\ LET i == Head(completed)
           t == tasks[i]
       IN  /\ completed' = Tail(completed)
           /\ IF t.st = "error"
              THEN /\ bpc' = "closing_browser"
                   /\ error' = "page"
                   /\ UNCHANGED <<emitted, cpc, current, attempt, save_log, save_ret,
                                  sleeps, outcome, successful, failed, snapshots>>
              ELSE /\ emitted' = [emitted EXCEPT ![i] = @ + 1]
                   /\ UNCHANGED <<bpc, error, successful, snapshots>>
                   /\ IF t.bytes = NoBytes
                      THEN /\ failed' = failed + 1
                           /\ outcome' = [outcome EXCEPT ![i] = "capture_failed"]
                           /\ UNCHANGED <<cpc, current, attempt, save_log, save_ret, sleeps>>
                      ELSE IF compress_from_bytes(t.bytes) = NoBytes
                      THEN /\ failed' = failed
                           /\ outcome' = [outcome EXCEPT ![i] = "compress_failed"]
                           /\ UNCHANGED <<cpc, current, attempt, save_log, save_ret, sleeps>>
                      ELSE /\ cpc' = "saving"
                           /\ current' = i
                           /\ attempt' = 0
                           /\ save_log' = <<>>
                           /\ save_ret' = "none"
                           /\ sleeps' = <<>>
                           /\ UNCHANGED <<failed, outcome>>
    /\ ConsumerStep

\* variant of TakeResult that hands a result to the retry wrapper although its
\* compression failed
TakeResult_SavesUncompressed ==
    /\ bpc = "running"
    /\ cpc = "idle"
    /\ completed # <<>>
    /\ LET i == Head(completed)
           t == tasks[i]
       IN  /\ completed' = Tail(completed)
           /\ IF t.st = "error"
              THEN /\ bpc' = "closing_browser"
                   /\ error' = "page"
                   /\ UNCHANGED <<emitted, cpc, current, attempt, save_log, save_ret,
                                  sleeps, outcome, successful, failed, snapshots>>
              ELSE /\ emitted' = [emitted EXCEPT ![i] = @ + 1]
                   /\ UNCHANGED <<bpc, error, successful, snapshots>>
                   /\ IF t.bytes = NoBytes
                      THEN /\ failed' = failed + 1
                           /\ outcome' = [outcome EXCEPT ![i] = "capture_failed"]
                           /\ UNCHANGED <<cpc, current, attempt, save_log, save_ret, sleeps>>
                      ELSE /\ cpc' = "saving"
                           /\ current' = i
                           /\ attempt' = 0
                           /\ save_log' = <<>>
                           /\ save_ret' = "none"
                           /\ sleeps' = <<>>
                           /\ UNCHANGED <<failed, outcome>>
    /\ ConsumerStep

\* variant of TakeResult that takes the next result while a save is still
\* in progress
TakeResult_Overlapping ==
    /\ bpc = "running"
    /\ completed # <<>>
    /\ LET i == Head(completed)
           t == tasks[i]
       IN  /\ completed' = Tail(completed)
           /\ IF t.st = "error"
              THEN /\ bpc' = "closing_browser"
                   /\ error' = "page"
                   /\ UNCHANGED <<emitted, cpc, current, attempt, save_log, save_ret,
                                  sleeps, outcome, successful, failed, snapshots>>
              ELSE /\ emitted' = [emitted EXCEPT ![i] = @ + 1]
                   /\ UNCHANGED <<bpc, error, successful, snapshots>>
                   /\ IF t.bytes = NoBytes
                      THEN /\ failed' = failed + 1
                           /\ outcome' = [outcome EXCEPT ![i] = "capture_failed"]
                           /\ UNCHANGED <<cpc, current, attempt, save_log, save_ret, sleeps>>
                      ELSE IF compress_from_bytes(t.bytes) = NoBytes
                      THEN /\ failed' = failed + 1
                           /\ outcome' = [outcome EXCEPT ![i] = "compress_failed"]
                           /\ UNCHANGED <<cpc, current, attempt, save_log, save_ret, sleeps>>
                      ELSE /\ cpc' = "saving"
                           /\ current' = i
                           /\ attempt' = 0
                           /\ save_log' = <<>>
                           /\ save_ret' = "none"
                           /\ sleeps' = <<>>
                           /\ UNCHANGED <<failed, outcome>>
    /\ ConsumerStep

\* as_completed hands over the next completed task: its exception is raised,
\* or its result is yielded and the consumer's loop body runs up to the save
TakeResult ==
    /\ bpc = "running"
    /\ cpc = "idle"
    /\ completed # <<>>
    /\ LET i == Head(completed)
           t == tasks[i]
       IN  /\ completed' = Tail(completed)
           /\ IF t.st = "error"
              THEN /\ bpc' = "closing_browser"
                   /\ error' = "page"
                   /\ UNCHANGED <<emitted, cpc, current, attempt, save_log, save_ret,
                                  sleeps, outcome, successful, failed, snapshots>>
              ELSE /\ emitted' = [emitted EXCEPT ![i] = @ + 1]
                   /\ UNCHANGED <<bpc, error, successful, snapshots>>
                   /\ IF t.bytes = NoBytes
                      THEN /\ failed' = failed + 1
                           /\ outcome' = [outcome EXCEPT ![i] = "capture_failed"]
                           /\ UNCHANGED <<cpc, current, attempt, save_log, save_ret, sleeps>>
                      ELSE IF compress_from_bytes(t.bytes) = NoBytes
                      THEN /\ failed' = failed + 1
                           /\ outcome' = [outcome EXCEPT ![i] = "compress_failed"]
                           /\ UNCHANGED <<cpc, current, attempt, save_log, save_ret, sleeps>>
                      ELSE /\ cpc' = "saving"
                           /\ current' = i
                           /\ attempt' = 0
                           /\ save_log' = <<>>
                           /\ save_ret' = "none"
                           /\ sleeps' = <<>>
                           /\ UNCHANGED <<failed, outcome>>
    /\ ConsumerStep

\* variant of SaveCall that sleeps and retries after the last attempt too
SaveCall_ExtraRetry ==
    /\ bpc = "running"
    /\ cpc = "saving"
    /\ \E o \in {"ok", "false", "raise"} :
        /\ save_log' = Append(save_log, o)
        /\ IF o = "ok"
           THEN /\ snapshots' = UpsertSnapshot(snapshots, capture_urls[current],
                                    compress_from_bytes(tasks[current].bytes),
                                    tasks[current].status)
                /\ save_ret' = "true"
                /\ successful' = successful + 1
                /\ outcome' = [outcome EXCEPT ![current] = "saved"]
                /\ cpc' = "idle"
                /\ UNCHANGED <<sleeps, failed>>
           ELSE IF attempt < max_retries
           THEN /\ sleeps' = Append(sleeps, Pow2(attempt))
                /\ cpc' = "backoff"
                /\ UNCHANGED <<snapshots, save_ret, successful, failed, outcome>>
           ELSE /\ save_ret' = "false"
                /\ failed' = failed + 1
                /\ outcome' = [outcome EXCEPT ![current] = "save_failed"]
                /\ cpc' = "idle"
                /\ UNCHANGED <<snapshots, sleeps, successful>>
    /\ UNCHANGED <<bpc, error, completed, emitted, current, attempt>>
    /\ ConsumerStep

\* variant of SaveCall that raises out of the batch once the retries are used up
SaveCall_RaiseOnExhaust ==
    /\ cpc = "saving"
    /\ bpc = "running"
    /\ \E o \in {"ok", "false", "raise"} :
        /\ save_log' = Append(save_log, o)
        /\ IF o = "ok"
           THEN /\ snapshots' = UpsertSnapshot(snapshots, capture_urls[current],
                                    compress_from_bytes(tasks[current].bytes),
                                    tasks[current].status)
                /\ save_ret' = "true"
                /\ successful' = successful + 1
                /\ outcome' = [outcome EXCEPT ![current] = "saved"]
                /\ cpc' = "idle"
                /\ UNCHANGED <<sleeps, failed, bpc, error>>
           ELSE IF attempt < max_retries - 1
           THEN /\ sleeps' = Append(sleeps, Pow2(attempt))
                /\ cpc' = "backoff"
                /\ UNCHANGED <<snapshots, save_ret, successful, failed, outcome, bpc, error>>
           ELSE /\ bpc' = "closing_browser"
                /\ error' = "save"
                /\ cpc' = "idle"
                /\ UNCHANGED <<snapshots, sleeps, successful, save_ret, failed, outcome>>
    /\ UNCHANGED <<completed, emitted, current, attempt>>
    /\ ConsumerStep

\* variant of SaveCall that waits after the last failed attempt as well
SaveCall_SleepsAfterLast ==
    /\ bpc = "running"
    /\ cpc = "saving"
    /\ \E o \in {"ok", "false", "raise"} :
        /\ save_log' = Append(save_log, o)
        /\ IF o = "ok"
           THEN /\ snapshots' = UpsertSnapshot(snapshots, capture_urls[current],
                                    compress_from_bytes(tasks[current].bytes),
                                    tasks[current].status)
                /\ save_ret' = "true"
                /\ successful' = successful + 1
                /\ outcome' = [outcome EXCEPT ![current] = "saved"]
                /\ cpc' = "idle"
                /\ UNCHANGED <<sleeps, failed>>
           ELSE IF attempt < max_retries - 1
           THEN /\ sleeps' = Append(sleeps, Pow2(attempt))
                /\ cpc' = "backoff"
                /\ UNCHANGED <<snapshots, save_ret, successful, failed, outcome>>
           ELSE /\ sleeps' = Append(sleeps, Pow2(attempt))
                /\ save_ret' = "false"
                /\ failed' = failed + 1
                /\ outcome' = [outcome EXCEPT ![current] = "save_failed"]
                /\ cpc' = "idle"
                /\ UNCHANGED <<snapshots, successful>>
    /\ UNCHANGED <<bpc, error, completed, emitted, current, attempt>>
    /\ ConsumerStep

\* one iteration of the retry loop: save_screenshot_snapshot returns True,
\* returns False or raises
SaveCall ==
    /\ bpc = "running"
    /\ cpc = "saving"
    /\ \E o \in {"ok", "false", "raise"} :
        /\ save_log' = Append(save_log, o)
        /\ IF o = "ok"
           THEN /\ snapshots' = UpsertSnapshot(snapshots, capture_urls[current],
                                    compress_from_bytes(tasks[current].bytes),
                                    tasks[current].status)
                /\ save_ret' = "true"
                /\ successful' = successful + 1
                /\ outcome' = [outcome EXCEPT ![current] = "saved"]
                /\ cpc' = "idle"
                /\ UNCHANGED <<sleeps, failed>>
           ELSE IF attempt < max_retries - 1
           THEN /\ sleeps' = Append(sleeps, Pow2(attempt))
                /\ cpc' = "backoff"
                /\ UNCHANGED <<snapshots, save_ret, successful, failed, outcome>>
           ELSE /\ save_ret' = "false"
                /\ failed' = failed + 1
                /\ outcome' = [outcome EXCEPT ![current] = "save_failed"]
                /\ cpc' = "idle"
                /\ UNCHANGED <<snapshots, sleeps, successful>>
    /\ UNCHANGED <<bpc, error, completed, emitted, current, attempt>>
    /\ ConsumerStep

\* time.sleep(wait_time) is over: next iteration of the retry loop
BackoffDone ==
    /\ bpc = "running"
    /\ cpc = "backoff"
    /\ attempt' = attempt + 1
    /\ cpc' = "saving"
    /\ UNCHANGED <<bpc, error, completed, emitted, current, save_log, save_ret, sleeps,
                   outcome, successful, failed, snapshots>>
    /\ ConsumerStep

\* variant of Finish that ends the batch as soon as no completed task is waiting
Finish_WhenQueueEmpty ==
    /\ bpc = "running"
    /\ cpc = "idle"
    /\ completed = <<>>
    /\ context' = "closed"
    /\ browser' = "closed"
    /\ bpc' = "done"
    /\ UNCHANGED <<rvars, xvars>>
    /\ UNCHANGED <<capture_urls, concurrency, error, permits, tasks,
                   completed, emitted, cpc, current, attempt, save_log, save_ret, sleeps,
                   outcome, total, successful, failed, snapshots, stats>>

\* as_completed is exhausted: context.close(), then browser.close()
Finish ==
    /\ bpc = "running"
    /\ cpc = "idle"
    /\ \A i \in 1..Len(capture_urls) : emitted[i] > 0
    /\ context' = "closed"
    /\ browser' = "closed"
    /\ bpc' = "done"
    /\ UNCHANGED <<rvars, xvars>>
    /\ UNCHANGED <<capture_urls, concurrency, error, permits, tasks,
                   completed, emitted, cpc, current, attempt, save_log, save_ret, sleeps,
                   outcome, total, successful, failed, snapshots, stats>>

\* _capture_and_save_screenshots returns its counters
TaskReturn ==
    /\ bpc = "done"
    /\ stats' = [total |-> total, successful |-> successful, failed |-> failed]
    /\ bpc' = "returned"
    /\ UNCHANGED <<rvars, xvars>>
    /\ UNCHANGED <<capture_urls, concurrency, browser, context, error, permits, tasks,
                   completed, emitted, cpc, current, attempt, save_log, save_ret, sleeps,
                   outcome, total, successful, failed, snapshots>>

NextCapture ==
    \/ SkipEmpty
    \/ EmptyBatch
    \/ Launch
    \/ NewContext
    \/ BrowserClosed
    \/ \E i \in 1..Len(tasks) : Acquire(i)
    \/ \E i \in 1..Len(tasks) : OpenPage(i)
    \/ \E i \in 1..Len(tasks) : Goto(i)
    \/ \E i \in 1..Len(tasks) : Screenshot(i)
    \/ \E i \in 1..Len(tasks) : ClosePage(i)
    \/ TakeResult
    \/ SaveCall
    \/ BackoffDone
    \/ Finish
    \/ TaskReturn

SpecCapture == InitCapture /\ [][NextCapture]_vars

\* the capture task when every awaited operation returns or raises: the event
\* loop runs a task that is ready, and the worker thread finishes each save
\* and each sleep
SpecCaptureFair == SpecCapture /\ WF_vars(NextCapture)

TypeOKCapture ==
    /\ bpc \in {"start", "batch_empty", "launched", "running", "closing_browser", "raised",
                "done", "returned"}
    /\ cpc \in {"idle", "saving", "backoff"}
    /\ permits \in 0..MaxConcurrency
    /\ attempt \in 0..(max_retries - 1)

\* ------------------------------------------------------------ screenshot flow
\* thresholds of wait_for_system_load (percent)
SCAN_CPU_HIGH == 90

SCAN_MEM_HIGH == 80

\* psutil percentages: below, at and above each threshold
CpuSamples == {50, 90, 95}

MemSamples == {40, 80, 85}

\* the keys of _SOURCE_MAPPING
MappedUrlSources == {"websites", "endpoints"}

SOURCE_MAPPING(s) == IF s = "websites" THEN WEBSITE ELSE ENDPOINT

\* variant of map_url_sources_to_data_sources that appends nothing
map_url_sources_to_data_sources_NoDefault(us) ==
    LET known == SelectSeq(us, LAMBDA s : s \in MappedUrlSources)
    IN  [i \in 1..Len(known) |-> SOURCE_MAPPING(known[i])]

\* _map_url_sources_to_data_sources: unknown names are skipped, DEFAULT is appended
map_url_sources_to_data_sources(us) ==
    LET known == SelectSeq(us, LAMBDA s : s \in MappedUrlSources)
    IN  Append([i \in 1..Len(known) |-> SOURCE_MAPPING(known[i])], DEFAULT)

\* inputs of the flow runs
FlowUrlSources == {<<"websites">>, <<"ports", "endpoints">>, <<>>}

FlowTargets == {NoTarget, TargetRow("DOMAIN", "example.com", FALSE, 0, 0)}

FlowRules == {{}, {"^http://"}}

FlowRows ==
    { <<>>, <<"http://a.example.com/x">>,
      <<"http://a.example.com/x", "http://a.example.com/x">>,
      <<"http://a.example.com/x", "https://b.org/y">> }

FlowConcurrencies == {1, 2}

\* Screenshot rows the target may hold from earlier scans
InitialAssets ==
    { {},
      {[url |-> "http://a.example.com/x", image |-> "old", status_code |-> 404,
        updated_at |-> 0]} }

EmptyFlowResult ==
    [success |-> TRUE, total_urls |-> 0, successful |-> 0, failed |-> 0, synced |-> 0]

\* variant of UpsertAsset that always inserts a row (create)
UpsertAsset_Insert(rows, snapshot, now) ==
    rows \cup {[url |-> snapshot.url, image |-> snapshot.image,
                status_code |-> snapshot.status_code, updated_at |-> now]}

\* Screenshot.objects.update_or_create(target_id, url, defaults); updated_at
\* is auto_now: every save stamps the row with the current time
UpsertAsset(rows, snapshot, now) ==
    {r \in rows : r.url # snapshot.url}
        \cup {[url |-> snapshot.url, image |-> snapshot.image,
               status_code |-> snapshot.status_code, updated_at |-> now]}

InitFlow ==
    /\ IdleHosts
    /\ IdleCompress
    /\ sources = <<>>
    /\ target \in FlowTargets
    /\ rules \in FlowRules
    /\ \E rows \in FlowRows : db = [t \in QueryTables |-> rows]
    /\ loaded = QueryTables
    /\ rpc = "idle"
    /\ idx = 0
    /\ cur = <<>>
    /\ pos = 1
    /\ has_raw_data = FALSE
    /\ has_output = FALSE
    /\ tried_sources = <<>>
    /\ yielded = <<>>
    /\ urls = <<>>
    /\ actual_source = "none"
    /\ result = NoResult
    /\ sink_lines = <<>>
    /\ sink_count = 0
    /\ sink_source = "none"
    /\ export_result = NoExport
    /\ capture_urls = <<>>
    /\ concurrency \in FlowConcurrencies
    /\ browser = "none"
    /\ context = "none"
    /\ bpc = "idle"
    /\ error = ""
    /\ permits = 0
    /\ tasks = <<>>
    /\ completed = <<>>
    /\ emitted = <<>>
    /\ cpc = "idle"
    /\ current = 0
    /\ attempt = 0
    /\ save_log = <<>>
    /\ save_ret = "none"
    /\ sleeps = <<>>
    /\ outcome = <<>>
    /\ total = 0
    /\ successful = 0
    /\ failed = 0
    /\ snapshots = {}
    /\ stats = NoStats
    /\ fpc = "waiting"
    /\ url_sources \in FlowUrlSources
    /\ load = NoLoad
    /\ polls = 0
    /\ assets = {}
    /\ assets_loaded = FALSE
    /\ spc = "idle"
    /\ sync_rows = {}
    /\ count = 0
    /\ synced = -1
    /\ syncs = 0
    /\ prev_assets = {}
    /\ prev_synced = -1
    /\ flow_result = NoFlowResult

\* variant of WaitSample that returns when either value is below its threshold
WaitSample_Or ==
    /\ fpc = "waiting"
    /\ \E cpu \in CpuSamples, mem \in MemSamples :
        /\ load' = [cpu |-> cpu, mem |-> mem]
        /\ fpc' = IF cpu < SCAN_CPU_HIGH \/ mem < SCAN_MEM_HIGH THEN "collect" ELSE "sleeping"
    /\ polls' = polls + 1
    /\ UNCHANGED <<rvars, cvars, hvars, zvars>>
    /\ UNCHANGED <<url_sources, assets, assets_loaded, spc, sync_rows, count, synced, syncs,
                   prev_assets, prev_synced, flow_result>>

\* variant of WaitSample that gives up waiting at its second sample
WaitSample_GivesUp ==
    /\ fpc = "waiting"
    /\ \E cpu \in CpuSamples, mem \in MemSamples :
        /\ load' = [cpu |-> cpu, mem |-> mem]
        /\ fpc' = IF (cpu < SCAN_CPU_HIGH /\ mem < SCAN_MEM_HIGH) \/ polls >= 1
                  THEN "collect" ELSE "sleeping"
    /\ polls' = polls + 1
    /\ UNCHANGED <<rvars, cvars, hvars, zvars>>
    /\ UNCHANGED <<url_sources, assets, assets_loaded, spc, sync_rows, count, synced, syncs,
                   prev_assets, prev_synced, flow_result>>

\* one iteration of wait_for_system_load: sample, then return or go to sleep
WaitSample ==
    /\ fpc = "waiting"
    /\ \E cpu \in CpuSamples, mem \in MemSamples :
        /\ load' = [cpu |-> cpu, mem |-> mem]
        /\ fpc' = IF cpu < SCAN_CPU_HIGH /\ mem < SCAN_MEM_HIGH THEN "collect" ELSE "sleeping"
    /\ polls' = polls + 1
    /\ UNCHANGED <<rvars, cvars, hvars, zvars>>
    /\ UNCHANGED <<url_sources, assets, assets_loaded, spc, sync_rows, count, synced, syncs,
                   prev_assets, prev_synced, flow_result>>

\* time.sleep(check_interval) is over
WaitSleep ==
    /\ fpc = "sleeping"
    /\ polls < MaxPolls
    /\ fpc' = "waiting"
    /\ UNCHANGED <<rvars, cvars, hvars, zvars>>
    /\ UNCHANGED <<url_sources, load, polls, assets, assets_loaded, spc, sync_rows, count,
                   synced, syncs, prev_assets, prev_synced, flow_result>>

\* steps 1 and 2 of the flow: parse the config, map the url sources and call
\* get_urls_with_fallback (wait_for_system_load has returned, its locals are gone)
CollectUrls ==
    /\ fpc = "collect"
    /\ sources' = map_url_sources_to_data_sources(url_sources)
    /\ rpc' = "loop"
    /\ fpc' = "resolving"
    /\ load' = NoLoad
    /\ polls' = 0
    /\ UNCHANGED <<cvars, hvars, zvars>>
    /\ UNCHANGED <<target, rules, db, loaded, idx, cur, pos, has_raw_data, has_output,
                   tried_sources, yielded, urls, actual_source, result,
                   sink_lines, sink_count, sink_source, export_result>>
    /\ UNCHANGED <<url_sources, assets, assets_loaded, spc, sync_rows, count, synced, syncs,
                   prev_assets, prev_synced, flow_result>>

\* variant of NoUrls without the early return: the capture task is started on
\* the empty list
NoUrls_StartsCapture ==
    /\ fpc = "resolving"
    /\ rpc = "returned"
    /\ result.urls = <<>>
    /\ capture_urls' = result.urls
    /\ bpc' = "start"
    /\ fpc' = "capturing"
    /\ UNCHANGED <<rvars, hvars, zvars>>
    /\ UNCHANGED <<concurrency, browser, context, error, permits, tasks,
                   completed, emitted, cpc, current, attempt, save_log, save_ret, sleeps,
                   outcome, total, successful, failed, snapshots, stats>>
    /\ UNCHANGED <<url_sources, load, polls, assets, assets_loaded, spc, sync_rows, count,
                   synced, syncs, prev_assets, prev_synced, flow_result>>

\* if not urls: return _build_empty_result
NoUrls ==
    /\ fpc = "resolving"
    /\ rpc = "returned"
    /\ result.urls = <<>>
    /\ flow_result' = EmptyFlowResult
    /\ fpc' = "returned"
    /\ UNCHANGED <<rvars, cvars, hvars, zvars>>
    /\ UNCHANGED <<url_sources, load, polls, assets, assets_loaded, spc, sync_rows, count,
                   synced, syncs, prev_assets, prev_synced>>

\* step 3 of the flow: capture_screenshots_task(urls, ..., {'concurrency': concurrency})
StartCaptureTask ==
    /\ fpc = "resolving"
    /\ rpc = "returned"
    /\ result.urls # <<>>
    /\ capture_urls' = result.urls
    /\ bpc' = "start"
    /\ fpc' = "capturing"
    /\ UNCHANGED <<rvars, hvars, zvars>>
    /\ UNCHANGED <<concurrency, browser, context, error, permits, tasks,
                   completed, emitted, cpc, current, attempt, save_log, save_ret, sleeps,
                   outcome, total, successful, failed, snapshots, stats>>
    /\ UNCHANGED <<url_sources, load, polls, assets, assets_loaded, spc, sync_rows, count,
                   synced, syncs, prev_assets, prev_synced, flow_result>>

\* variant of FlowFailed that swallows the task's error and goes on to build
\* the flow's return value
FlowFailed_Swallowed ==
    /\ fpc = "capturing"
    /\ bpc = "raised"
    /\ fpc' = "synced"
    /\ UNCHANGED <<rvars, cvars, hvars, zvars>>
    /\ UNCHANGED <<url_sources, load, polls, assets, assets_loaded, spc, sync_rows, count,
                   synced, syncs, prev_assets, prev_synced, flow_result>>

\* the capture task raised RuntimeError: the flow logs and re-raises
FlowFailed ==
    /\ fpc = "capturing"
    /\ bpc = "raised"
    /\ fpc' = "failed"
    /\ UNCHANGED <<rvars, cvars, hvars, zvars>>
    /\ UNCHANGED <<url_sources, load, polls, assets, assets_loaded, spc, sync_rows, count,
                   synced, syncs, prev_assets, prev_synced, flow_result>>

\* sync_screenshots_to_asset is entered: the snapshot queryset of the scan,
\* count = 0 (the Screenshot table holds whatever earlier scans left)
BeginSync ==
    /\ spc = "idle"
    /\ spc' = "rows"
    /\ sync_rows' = snapshots
    /\ count' = 0
    /\ syncs' = syncs + 1
    /\ IF assets_loaded THEN assets' = assets ELSE assets' \in InitialAssets
    /\ assets_loaded' = TRUE
    /\ prev_assets' = assets'
    /\ prev_synced' = synced
    /\ UNCHANGED <<synced, url_sources, load, polls, flow_result>>

\* variant of FlowSync that does not wait for the capture task to return
FlowSync_NoWait ==
    /\ fpc = "capturing"
    /\ bpc \in {"running", "returned"}
    /\ fpc' = "syncing"
    /\ BeginSync
    /\ UNCHANGED <<rvars, cvars, hvars, zvars>>

\* step 4 of the flow: the capture task has returned (its locals are gone),
\* sync_screenshots_to_asset(scan_id, target_id) is called
FlowSync ==
    /\ fpc = "capturing"
    /\ bpc = "returned"
    /\ fpc' = "syncing"
    /\ BeginSync
    /\ permits' = 0
    /\ tasks' = <<>>
    /\ completed' = <<>>
    /\ emitted' = <<>>
    /\ current' = 0
    /\ attempt' = 0
    /\ save_log' = <<>>
    /\ save_ret' = "none"
    /\ sleeps' = <<>>
    /\ outcome' = <<>>
    /\ total' = 0
    /\ successful' = 0
    /\ failed' = 0
    /\ UNCHANGED <<rvars, hvars, zvars>>
    /\ UNCHANGED <<capture_urls, concurrency, browser, context, bpc, error, cpc,
                   snapshots, stats>>

\* variant of SyncRow that counts a row whether or not its upsert succeeded
SyncRow_CountsFailures ==
    /\ spc = "rows"
    /\ \E r \in sync_rows, ok \in BOOLEAN :
        /\ sync_rows' = sync_rows \ {r}
        /\ count' = count + 1
        /\ IF ok
           THEN assets' = UpsertAsset(assets, r, syncs)
           ELSE UNCHANGED assets
    /\ UNCHANGED <<rvars, cvars, hvars, zvars>>
    /\ UNCHANGED <<fpc, url_sources, load, polls, assets_loaded, spc, synced, syncs,
                   prev_assets, prev_synced, flow_result>>

\* one iteration of the sync loop: update_or_create succeeds and is counted,
\* or raises and is logged
SyncRow ==
    /\ spc = "rows"
    /\ \E r \in sync_rows, ok \in BOOLEAN :
        /\ sync_rows' = sync_rows \ {r}
        /\ IF ok
           THEN /\ assets' = UpsertAsset(assets, r, syncs)
                /\ count' = count + 1
           ELSE UNCHANGED <<assets, count>>
    /\ UNCHANGED <<rvars, cvars, hvars, zvars>>
    /\ UNCHANGED <<fpc, url_sources, load, polls, assets_loaded, spc, synced, syncs,
                   prev_assets, prev_synced, flow_result>>

\* the sync loop is over: return count
SyncReturn ==
    /\ spc = "rows"
    /\ sync_rows = {}
    /\ synced' = count
    /\ spc' = "idle"
    /\ fpc' = IF fpc = "syncing" THEN "synced" ELSE fpc
    /\ UNCHANGED <<rvars, cvars, hvars, zvars>>
    /\ UNCHANGED <<url_sources, load, polls, assets, assets_loaded, sync_rows, count, syncs,
                   prev_assets, prev_synced, flow_result>>

\* the flow builds its return value
FlowReturn ==
    /\ fpc = "synced"
    /\ flow_result' = [success |-> TRUE, total_urls |-> stats.total,
                       successful |-> stats.successful, failed |-> stats.failed,
                       synced |-> synced]
    /\ fpc' = "returned"
    /\ UNCHANGED <<rvars, cvars, hvars, zvars>>
    /\ UNCHANGED <<url_sources, load, polls, assets, assets_loaded, spc, sync_rows, count,
                   synced, syncs, prev_assets, prev_synced>>

\* a later call of sync_screenshots_to_asset for the same scan and target
SyncAgain ==
    /\ fpc = "returned"
    /\ syncs < MaxSyncs
    /\ BeginSync
    /\ UNCHANGED fpc
    /\ UNCHANGED <<rvars, cvars, hvars, zvars>>

NextFlow ==
    \/ WaitSample
    \/ WaitSleep
    \/ CollectUrls
    \/ StartDefault
    \/ StartQuery
    \/ RowStep
    \/ EndRows
    \/ DefaultStep
    \/ EndDefault
    \/ Exhausted
    \/ ReturnResult
    \/ NoUrls
    \/ StartCaptureTask
    \/ Launch
    \/ NewContext
    \/ BrowserClosed
    \/ \E i \in 1..Len(tasks) : Acquire(i)
    \/ \E i \in 1..Len(tasks) : OpenPage(i)
    \/ \E i \in 1..Len(tasks) : Goto(i)
    \/ \E i \in 1..Len(tasks) : Screenshot(i)
    \/ \E i \in 1..Len(tasks) : ClosePage(i)
    \/ TakeResult
    \/ SaveCall
    \/ BackoffDone
    \/ Finish
    \/ TaskReturn
    \/ FlowFailed
    \/ FlowSync
    \/ SyncRow
    \/ SyncReturn
    \/ FlowReturn
    \/ SyncAgain

SpecFlow == InitFlow /\ [][NextFlow]_vars

TypeOKFlow ==
    /\ fpc \in {"waiting", "sleeping", "collect", "resolving", "capturing", "syncing",
                "synced", "returned", "failed"}
    /\ spc \in {"idle", "rows"}
    /\ polls \in 0..MaxPolls
    /\ syncs \in 0..MaxSyncs

\* ------------------------------------------------- runs without any url
\* capture_screenshots_task or capture_batch called on an empty url list
InitEmptyCapture ==
    /\ InitCapture
    /\ capture_urls = <<>>

\* the flow, or one of the capture entry points called on an empty url list
NextNoUrls ==
    \/ NextFlow
    \/ SkipEmpty
    \/ EmptyBatch

SpecNoUrls == (InitFlow \/ InitEmptyCapture) /\ [][NextNoUrls]_vars

\* -------------------------------------------------------------- compressor
\* ScreenshotService(max_width=800, ...)
max_width == 800

\* quality = 80, while quality >= 10, quality -= 10
FirstQuality == 80

LastQuality == 10

QualityStep == 10

\* images handed to _compress_image: narrower and wider than max_width, in
\* the three colour modes
ImageSamples ==
    [mode : {"RGB", "RGBA", "P"}, width : {640}, height : {480}]
        \cup [mode : {"RGB", "RGBA", "P"}, width : {1600}, height : {901}]

\* budgets in KB, and buffer sizes in bytes around the budget of 1 KB
TargetKbSamples == {0, 1, 2}

BufferSizes == {1024, 1025}

\* the budget in bytes the loop compares with
Budget == target_kb * 1024

InitCompress ==
    /\ IdleResolve
    /\ IdleCapture
    /\ IdleFlow
    /\ IdleHosts
    /\ img \in ImageSamples
    /\ target_kb \in TargetKbSamples
    /\ zpc = "start"
    /\ quality = 0
    /\ encodings = <<>>
    /\ webp = NoWebp

\* _compress_image up to the loop: RGBA and P images are converted to RGB, an
\* image wider than max_width is scaled to max_width keeping its ratio
PrepareImage ==
    /\ zpc = "start"
    /\ LET mode == IF img.mode \in {"RGBA", "P"} THEN "RGB" ELSE img.mode IN
        img' = IF img.width > max_width
               THEN [mode |-> mode, width |-> max_width,
                     height |-> (img.height * max_width) \div img.width]
               ELSE [img EXCEPT !.mode = mode]
    /\ quality' = FirstQuality
    /\ zpc' = "loop"
    /\ UNCHANGED <<rvars, cvars, fvars, hvars>>
    /\ UNCHANGED <<target_kb, encodings, webp>>

\* variant of EncodeStep that accepts a buffer only when it is strictly under
\* the budget
EncodeStep_StrictlyUnder ==
    /\ zpc = "loop"
    /\ quality >= LastQuality
    /\ \E size \in BufferSizes, ok \in BOOLEAN :
        /\ encodings' = Append(encodings, [quality |-> quality, size |-> size, ok |-> ok])
        /\ IF ~ok
           THEN /\ webp' = [kind |-> "None", quality |-> 0, size |-> 0]
                /\ zpc' = "returned"
                /\ UNCHANGED quality
           ELSE IF size < Budget
           THEN /\ webp' = [kind |-> "bytes", quality |-> quality, size |-> size]
                /\ zpc' = "returned"
                /\ UNCHANGED quality
           ELSE /\ quality' = quality - QualityStep
                /\ UNCHANGED <<webp, zpc>>
    /\ UNCHANGED <<rvars, cvars, fvars, hvars>>
    /\ UNCHANGED <<img, target_kb>>

\* one iteration of the loop: img.save at the current quality raises (the
\* except clause returns None), or fills a buffer that is returned when it is
\* within the budget; otherwise the quality goes down one step
EncodeStep ==
    /\ zpc = "loop"
    /\ quality >= LastQuality
    /\ \E size \in BufferSizes, ok \in BOOLEAN :
        /\ encodings' = Append(encodings, [quality |-> quality, size |-> size, ok |-> ok])
        /\ IF ~ok
           THEN /\ webp' = [kind |-> "None", quality |-> 0, size |-> 0]
                /\ zpc' = "returned"
                /\ UNCHANGED quality
           ELSE IF size <= Budget
           THEN /\ webp' = [kind |-> "bytes", quality |-> quality, size |-> size]
                /\ zpc' = "returned"
                /\ UNCHANGED quality
           ELSE /\ quality' = quality - QualityStep
                /\ UNCHANGED <<webp, zpc>>
    /\ UNCHANGED <<rvars, cvars, fvars, hvars>>
    /\ UNCHANGED <<img, target_kb>>

\* the loop ran out of qualities: the buffer of the last img.save is returned
ReturnLastBuffer ==
    /\ zpc = "loop"
    /\ quality < LastQuality
    /\ LET last == encodings[Len(encodings)] IN
        webp' = [kind |-> "bytes", quality |-> last.quality, size |-> last.size]
    /\ zpc' = "returned"
    /\ UNCHANGED <<rvars, cvars, fvars, hvars>>
    /\ UNCHANGED <<img, target_kb, quality, encodings>>

NextCompress ==
    \/ PrepareImage
    \/ EncodeStep
    \/ ReturnLastBuffer

SpecCompress == InitCompress /\ [][NextCompress]_vars

\* ------------------------------------------------------------ host expansion
\* raw host strings a provider may hold
HostStrings ==
    { "example.com", " example.com ", "10.0.0.1", "10.0.0.0/29", "10.0.0.0/30",
      "10.0.0.2/31", "10.0.0.1/32", "10.0.0.0/33", "http://example.com/login",
      "not a host", "  " }

\* str.strip() on the host strings of the model
strip(host) ==
    CASE host = " example.com " -> "example.com"
      [] host = "  " -> ""
      [] OTHER -> host

\* detect_target_type: the type of a target string, ValueError for a string
\* that is no domain, address, block or url
detect_target_type(host) ==
    CASE host = "example.com" -> "DOMAIN"
      [] host = "10.0.0.1" -> "IP"
      [] host \in {"10.0.0.0/29", "10.0.0.0/30", "10.0.0.2/31", "10.0.0.1/32",
                   "10.0.0.0/33"} -> "CIDR"
      [] host = "http://example.com/login" -> "URL"
      [] OTHER -> "ValueError"

\* ipaddress.ip_network(host, strict=False) for the blocks of the model
ip_network(host) ==
    CHOOSE n \in {CidrTarget(0, 29), CidrTarget(0, 30), CidrTarget(2, 31),
                  CidrTarget(1, 32), CidrTarget(0, 33)} : n.name = host

\* variant of expand_host that walks the block itself instead of its hosts()
expand_host_AllAddresses(host) ==
    LET h == strip(host) IN
    IF h = "" THEN <<>>
    ELSE IF detect_target_type(h) = "ValueError" THEN <<>>
    ELSE IF detect_target_type(h) = "CIDR"
        THEN LET network == ip_network(h) IN
             IF ~network.valid THEN <<>>
             ELSE [i \in 1..NumAddresses(network) |-> IpStr(NetworkAddress(network) + i - 1)]
    ELSE IF detect_target_type(h) \in {"IP", "DOMAIN"} THEN <<h>>
    ELSE <<>>

\* TargetProvider._expand_host: everything the generator yields for one host;
\* a ValueError of detect_target_type or ip_network is caught and logged
expand_host(host) ==
    LET h == strip(host) IN
    IF h = "" THEN <<>>
    ELSE IF detect_target_type(h) = "ValueError" THEN <<>>
    ELSE IF detect_target_type(h) = "CIDR"
        THEN LET network == ip_network(h) IN
             IF ~network.valid THEN <<>>
             ELSE IF NumAddresses(network) = 1
                THEN <<IpStr(NetworkAddress(network))>>
                ELSE [i \in 1..Len(NetworkHosts(network)) |-> IpStr(NetworkHosts(network)[i])]
    ELSE IF detect_target_type(h) \in {"IP", "DOMAIN"} THEN <<h>>
    ELSE <<>>

\* the iter_hosts implementations: the one of the base class, inherited by a
\* provider that overrides only the abstract methods, and the override of
\* DatabaseTargetProvider
ProviderKinds == {"base", "database"}

InitHosts ==
    /\ IdleResolve
    /\ IdleCapture
    /\ IdleFlow
    /\ IdleCompress
    /\ raw_hosts \in SeqsUpTo(HostStrings, MaxHosts)
    /\ hpc = "loop"
    /\ hpos = 1
    /\ expanded = <<>>
    /\ provider \in ProviderKinds
    /\ host_rules \in SUBSET Patterns
    /\ written = <<>>
    /\ IdleExport

\* TargetProvider.iter_hosts, as a provider inherits it, under the loop of
\* export_hosts_task: the next raw host is expanded and every host of the
\* expansion is yielded and written
ExpandNext ==
    /\ hpc = "loop"
    /\ provider = "base"
    /\ hpos <= Len(raw_hosts)
    /\ expanded' = Append(expanded, expand_host(raw_hosts[hpos]))
    /\ written' = written \o expand_host(raw_hosts[hpos])
    /\ hpos' = hpos + 1
    /\ UNCHANGED <<rvars, cvars, fvars, zvars>>
    /\ UNCHANGED <<raw_hosts, hpc, provider, host_rules, evars>>

\* DatabaseTargetProvider.iter_hosts under the loop of export_hosts_task: the
\* next raw host is expanded and the hosts of the expansion that the
\* provider's filter allows are yielded and written
FilteredExpandNext ==
    /\ hpc = "loop"
    /\ provider = "database"
    /\ hpos <= Len(raw_hosts)
    /\ expanded' = Append(expanded, expand_host(raw_hosts[hpos]))
    /\ written' = written \o SelectSeq(expand_host(raw_hosts[hpos]),
                                        LAMBDA h : is_allowed(host_rules, h))
    /\ hpos' = hpos + 1
    /\ UNCHANGED <<rvars, cvars, fvars, zvars>>
    /\ UNCHANGED <<raw_hosts, hpc, provider, host_rules, evars>>

\* iter_hosts: the raw hosts are exhausted, export_hosts_task closes the file
IterDone ==
    /\ hpc = "loop"
    /\ hpos > Len(raw_hosts)
    /\ hpc' = "done"
    /\ UNCHANGED <<rvars, cvars, fvars, zvars>>
    /\ UNCHANGED <<raw_hosts, hpos, expanded, provider, host_rules, written, evars>>

NextHosts ==
    \/ ExpandNext
    \/ FilteredExpandNext
    \/ IterDone

SpecHosts == InitHosts /\ [][NextHosts]_vars

\* ------------------------------------------------- host export of a CIDR target
\* names of the CIDR targets export_hosts hands to _export_cidr
CidrNames == {"10.0.0.0/29", "10.0.0.0/30", "10.0.0.2/31", "10.0.0.1/32", "10.0.0.0/33"}

\* blacklist rules over host addresses
HostPatterns == {"10\\.0\\.0\\.0$", "10\\.0\\.0\\.1$", "10\\.0\\.0\\.2$"}

\* _should_write_target: without rules every target is written
should_write_target(t) == is_allowed(blacklist_filter, t)

\* str(ip) for ip in network.hosts()
HostList(network) == [i \in 1..Len(NetworkHosts(network)) |-> IpStr(NetworkHosts(network)[i])]

InitExport ==
    /\ IdleResolve
    /\ IdleCapture
    /\ IdleFlow
    /\ IdleCompress
    /\ raw_hosts = <<>>
    /\ hpc = "idle"
    /\ hpos = 1
    /\ expanded = <<>>
    /\ provider = "none"
    /\ host_rules = {}
    /\ written = <<>>
    /\ target_name \in CidrNames
    /\ blacklist_filter \in SUBSET HostPatterns
    /\ epc = "start"
    /\ epos = 1
    /\ output_lines = <<>>
    /\ host_count = 0

ExportStep ==
    /\ UNCHANGED <<rvars, cvars, fvars, zvars>>
    /\ UNCHANGED <<raw_hosts, hpc, hpos, expanded, provider, host_rules, written>>
    /\ UNCHANGED <<target_name, blacklist_filter>>

\* ip_network(target_name, strict=False) raises ValueError, or the output file
\* is opened for writing
ParseNetwork ==
    /\ epc = "start"
    /\ epc' = IF ip_network(target_name).valid THEN "hosts" ELSE "raised"
    /\ UNCHANGED <<epos, output_lines, host_count>>
    /\ ExportStep

\* one iteration of `for ip in network.hosts()`
WriteHost ==
    /\ epc = "hosts"
    /\ epos <= Len(HostList(ip_network(target_name)))
    /\ LET ip_str == HostList(ip_network(target_name))[epos] IN
        IF should_write_target(ip_str)
        THEN /\ output_lines' = Append(output_lines, ip_str)
             /\ host_count' = host_count + 1
        ELSE UNCHANGED <<output_lines, host_count>>
    /\ epos' = epos + 1
    /\ UNCHANGED epc
    /\ ExportStep

\* variant of CloseAndReturn that falls back to the network address only for
\* a single-address block
CloseAndReturn_SingleOnly ==
    /\ epc = "hosts"
    /\ epos > Len(HostList(ip_network(target_name)))
    /\ LET network == ip_network(target_name)
           ip_str == IpStr(NetworkAddress(network))
       IN  IF host_count = 0 /\ NumAddresses(network) = 1 /\ should_write_target(ip_str)
           THEN /\ output_lines' = <<ip_str>>
                /\ host_count' = 1
           ELSE UNCHANGED <<output_lines, host_count>>
    /\ epc' = "returned"
    /\ UNCHANGED epos
    /\ ExportStep

\* the loop is over and the file closed; with nothing written the network
\* address is written to a reopened file if the filter allows it; return
CloseAndReturn ==
    /\ epc = "hosts"
    /\ epos > Len(HostList(ip_network(target_name)))
    /\ LET ip_str == IpStr(NetworkAddress(ip_network(target_name))) IN
        IF host_count = 0 /\ should_write_target(ip_str)
        THEN /\ output_lines' = <<ip_str>>
             /\ host_count' = 1
        ELSE UNCHANGED <<output_lines, host_count>>
    /\ epc' = "returned"
    /\ UNCHANGED epos
    /\ ExportStep

NextExport ==
    \/ ParseNetwork
    \/ WriteHost
    \/ CloseAndReturn

SpecExport == InitExport /\ [][NextExport]_vars

\* ------------------------------------------------------- resolver properties
Last(s) == s[Len(s)]

NonEmptyUrls(rows) == SelectSeq(rows, LAMBDA u : u # "")

\* the candidates a source holds before filtering
RawCandidates(s) ==
    IF s \in QueryTables THEN NonEmptyUrls(db[s])
    ELSE IF s = DEFAULT THEN DefaultUrlList(target)
    ELSE <<>>

AllFiltered(cands) == \A i \in 1..Len(cands) : ~is_allowed(rules, cands[i])

ChainEnded == rpc \in {"done", "returned"}

\* C1: once a query source (endpoint or website) holds a non-empty raw url, it
\* is the last source tried: no later source of the list is queried, and no
\* url is yielded by a later source, whether or not the filter let any url pass.
C1_RawDataStopsChain ==
    \A i \in 1..Len(tried_sources) :
        (tried_sources[i] \in QueryTables /\ RawCandidates(tried_sources[i]) # <<>>)
            => /\ i = Len(tried_sources)
               /\ \A k \in 1..Len(yielded) : yielded[k].at <= i
               /\ rpc = "returned" => result.tried_sources = SubSeq(sources, 1, i)

\* C1 witness: the chain returned after a query source whose raw urls were all
\* rejected, with sources left untried and nothing output
C1_Witness ==
    /\ rpc = "returned"
    /\ tried_sources # <<>>
    /\ Last(tried_sources) \in QueryTables
    /\ RawCandidates(Last(tried_sources)) # <<>>
    /\ AllFiltered(RawCandidates(Last(tried_sources)))
    /\ Len(tried_sources) < Len(sources)
    /\ sources[Len(tried_sources) + 1] = DEFAULT
    /\ DefaultUrlList(target) # <<>>
    /\ ~AllFiltered(DefaultUrlList(target))
    /\ result.urls = <<>>

\* C2: when the first source A holds raw urls that the blacklist rejects
\* entirely, the resolver returns urls = [], source = A, tried_sources = [A].
C2_FilteredFirstSourceReported ==
    (/\ rpc = "returned"
     /\ sources # <<>>
     /\ RawCandidates(sources[1]) # <<>>
     /\ AllFiltered(RawCandidates(sources[1])))
        => /\ result.urls = <<>>
           /\ result.source = sources[1]
           /\ result.tried_sources = <<sources[1]>>

\* C3: a source without any raw candidate lets the chain go on to the next
\* source in list order; the chain ends either at a source that holds raw
\* candidates or after all listed sources were tried and none held any.
C3_EmptySourceFallsThrough ==
    /\ IsPrefix(tried_sources, sources)
    /\ ChainEnded =>
        \/ /\ tried_sources = sources
           /\ \A i \in 1..Len(sources) : RawCandidates(sources[i]) = <<>>
        \/ /\ tried_sources # <<>>
           /\ RawCandidates(Last(tried_sources)) # <<>>

\* C4: all urls of one resolver call come from one source, which is the
\* reported source and the last element of tried_sources when the output is
\* non-empty; tried_sources is a prefix of the given source list.
C4_SingleSource ==
    /\ \A j, k \in 1..Len(yielded) :
            yielded[j].at = yielded[k].at /\ yielded[j].source = yielded[k].source
    /\ IsPrefix(tried_sources, sources)
    /\ (rpc = "returned" /\ result.urls # <<>>) =>
        /\ result.urls = [k \in 1..Len(yielded) |-> yielded[k].url]
        /\ \A k \in 1..Len(yielded) : yielded[k].source = result.source
        /\ result.source = Last(result.tried_sources)
        /\ IsPrefix(result.tried_sources, sources)

\* C4 witness: output produced by the second source of a longer list after a
\* first source without raw data
C4_Witness ==
    /\ rpc = "returned"
    /\ Len(result.urls) >= 2
    /\ Len(result.tried_sources) = 2
    /\ Len(sources) > 2
    /\ result.source = sources[2]
    /\ sources[1] # sources[2]

\* C5: every url the resolver yields and returns, from any source including
\* default, is allowed by the blacklist filter.
C5_OutputAllowed ==
    /\ \A k \in 1..Len(yielded) : is_allowed(rules, yielded[k].url)
    /\ \A k \in 1..Len(urls) : is_allowed(rules, urls[k])
    /\ \A k \in 1..Len(result.urls) : is_allowed(rules, result.urls[k])

\* C5 witness: the default source returned some urls while the filter
\* rejected another of its candidates
C5_Witness ==
    /\ rpc = "returned"
    /\ result.source = DEFAULT
    /\ result.urls # <<>>
    /\ \E i \in 1..Len(DefaultUrlList(target)) : ~is_allowed(rules, DefaultUrlList(target)[i])

\* -------------------------------------------------------- capture properties
TaskIds == 1..Len(tasks)

\* tasks holding an open page, and tasks inside a page operation
PagesOpen == {i \in TaskIds : tasks[i].st \in {"navigating", "shooting", "closing"}}

InFlight == {i \in TaskIds : tasks[i].st \in {"opening", "navigating", "shooting", "closing"}}

BatchEnded == bpc \in {"done", "returned"}

BatchRaised == bpc \in {"closing_browser", "raised"}

\* C6: with concurrency N, at every instant at most N pages are open and at
\* most N tasks are inside a page operation, however many urls were submitted.
C6_BoundedConcurrency ==
    tasks # <<>> =>
        /\ Cardinality(PagesOpen) <= concurrency
        /\ Cardinality(InFlight) <= concurrency

\* C6 witness: all N pages are open while a further task waits for a permit
C6_Witness ==
    /\ concurrency >= 1
    /\ Len(capture_urls) > concurrency
    /\ Cardinality(PagesOpen) = concurrency
    /\ permits = 0
    /\ \E i \in TaskIds : tasks[i].st = "waiting"

CountIn(seq, u) == Cardinality({i \in 1..Len(seq) : seq[i] = u})

EmittedCount(u) ==
    Cardinality({i \in 1..Len(emitted) : capture_urls[i] = u /\ emitted[i] > 0})

\* C7: no submitted url occurrence is ever yielded twice, and a batch that is
\* consumed to its end has yielded exactly one result per occurrence: the
\* yielded urls form the multiset of the submitted urls.
C7_OneResultPerUrl ==
    /\ \A i \in 1..Len(emitted) : emitted[i] <= 1
    /\ \A u \in UrlPool : EmittedCount(u) <= CountIn(capture_urls, u)
    /\ (BatchEnded /\ capture_urls # <<>>) =>
        /\ Len(emitted) = Len(capture_urls)
        /\ \A i \in 1..Len(emitted) : emitted[i] = 1
        /\ \A u \in UrlPool : EmittedCount(u) = CountIn(capture_urls, u)

\* C7 witness: a batch of two equal urls ended, one screenshot having failed
C7_Witness ==
    /\ bpc = "returned"
    /\ Len(capture_urls) = 2
    /\ capture_urls[1] = capture_urls[2]
    /\ tasks[1].bytes = NoBytes
    /\ tasks[2].bytes = "jpeg"

\* C8: a task whose screenshot failed returns (url, None, None) whatever goto
\* had reported; every task's result depends on its own goto and screenshot
\* outcomes only; and no task that got as far as the screenshot raises.
C8_ScreenshotFailureIsolated ==
    \A i \in TaskIds :
        /\ (tasks[i].st \in {"closing", "finished"} /\ tasks[i].bytes = NoBytes)
                => tasks[i].status = NoStatus
        /\ tasks[i].st = "closing" =>
            /\ tasks[i].status_code = (IF tasks[i].nav = "ok" THEN HTTP_OK ELSE NoStatus)
            /\ tasks[i].status =
                (IF tasks[i].bytes = NoBytes THEN NoStatus ELSE tasks[i].status_code)
        /\ tasks[i].st = "error" => tasks[i].nav = "pending"
        /\ (BatchRaised /\ error = "page") => \E j \in TaskIds : tasks[j].st = "error"

\* C8 witness: a screenshot failed after goto had reported a status, and the
\* other url of the batch has its image and status
C8_Witness ==
    \E i, j \in TaskIds :
        /\ i # j
        /\ tasks[i].st = "closing"
        /\ tasks[i].status_code = HTTP_OK
        /\ tasks[i].bytes = NoBytes
        /\ tasks[i].status = NoStatus
        /\ tasks[j].st = "finished"
        /\ emitted[j] = 1
        /\ tasks[j].bytes = "jpeg"
        /\ tasks[j].status = HTTP_OK
        /\ bpc = "running"

SaveFailures == {"false", "raise"}

\* C9: the retry wrapper calls save at most 3 times, every call before the
\* last one having failed; it returns True exactly when its last call
\* succeeded and False only after 3 failed calls (so two failures of either
\* kind followed by a success make 3 calls and True).
C9_RetryWrapper ==
    /\ Len(save_log) <= 3
    /\ \A k \in 1..(Len(save_log) - 1) : save_log[k] \in SaveFailures
    /\ save_ret = "true" <=> (save_log # <<>> /\ save_log[Len(save_log)] = "ok")
    /\ save_ret = "false" <=>
            (Len(save_log) = 3 /\ \A k \in 1..3 : save_log[k] \in SaveFailures)
    /\ (cpc = "idle" /\ save_log # <<>>) => save_ret \in {"true", "false"}

\* C9 witness: a False return, a raise, then a success: 3 calls, True
C9_Witness ==
    /\ save_log = <<"false", "raise", "ok">>
    /\ save_ret = "true"
    /\ cpc = "idle"

FailureOutcomes == {"capture_failed", "compress_failed", "save_failed"}

\* C10: a url whose persistence failed after all retries is counted in failed;
\* the batch raises only for a browser, context, semaphore or page-open error,
\* never for a persistence failure; and a batch that ended has compressed every
\* result with an image and submitted every compressed one for persistence.
C10_PersistenceFailureIsolated ==
    /\ failed = Cardinality({i \in 1..Len(outcome) : outcome[i] \in FailureOutcomes})
    /\ BatchRaised => error \in {"launch", "context", "semaphore", "page"}
    /\ (\E i \in 1..Len(outcome) : outcome[i] = "save_failed") =>
            (BatchRaised => \E j \in TaskIds : tasks[j].st = "error")
    /\ BatchEnded =>
        \A i \in 1..Len(outcome) :
            /\ outcome[i] # "pending"
            /\ compress_from_bytes(tasks[i].bytes) # NoBytes
                    => outcome[i] \in {"saved", "save_failed"}

\* C10 witness: after the persistence of one url failed for good, the result
\* of the other url is being persisted
C10_Witness ==
    \E i, j \in TaskIds :
        /\ i # j
        /\ outcome[i] = "save_failed"
        /\ failed = 1
        /\ cpc = "saving"
        /\ current = j
        /\ bpc = "running"

\* ------------------------------------------------- counters and snapshot rows
ResultsHandled == Cardinality({i \in 1..Len(outcome) : outcome[i] # "pending"})

\* C11: every yielded result increments exactly one of successful and failed
\* once the consumer is through with it; when the capture task returns, total
\* is the number of submitted urls and successful + failed = total; and the
\* batch never raises because a capture, compression or persistence failed.
C11_CountersAddUp ==
    /\ successful + failed = ResultsHandled
    /\ successful = Cardinality({i \in 1..Len(outcome) : outcome[i] = "saved"})
    /\ \A i \in 1..Len(emitted) :
        /\ outcome[i] # "pending" => emitted[i] = 1
        /\ (emitted[i] = 1 /\ outcome[i] = "pending") => (cpc # "idle" /\ current = i)
    /\ bpc = "returned" =>
        /\ stats.total = Len(capture_urls)
        /\ stats.successful >= 0
        /\ stats.failed >= 0
        /\ stats.successful + stats.failed = stats.total
    /\ (BatchRaised /\ tasks # <<>>) => \E j \in TaskIds : tasks[j].st = "error"

\* C11 witness: the task returned 2 = 1 + 1 after a compression failure
C11_Witness ==
    /\ bpc = "returned"
    /\ stats = [total |-> 2, successful |-> 1, failed |-> 1]
    /\ \E i \in 1..Len(outcome) : outcome[i] = "compress_failed"

SnapshotOf(i) ==
    [url |-> capture_urls[i], image |-> compress_from_bytes(tasks[i].bytes),
     status_code |-> tasks[i].status]

\* C14: the snapshot table never holds two rows for one url of the scan; the
\* row of the url saved last holds the image and status of that save; and a
\* row changes only when a save for its url succeeds (last write wins).
C14_SnapshotLastWriteWins ==
    /\ [](/\ \A r1, r2 \in snapshots : r1.url = r2.url => r1 = r2
          /\ (save_ret = "true" /\ tasks # <<>>) => SnapshotOf(current) \in snapshots
          /\ \A r \in snapshots :
                \E i \in 1..Len(outcome) : outcome[i] = "saved" /\ r.url = capture_urls[i])
    /\ [][\A r \in snapshots :
            \/ r \in snapshots'
            \/ /\ save_ret # "true"
               /\ save_ret' = "true"
               /\ r.url = capture_urls[current]
               /\ SnapshotOf(current) \in snapshots']_vars

\* C14 witness: one url saved twice, with a status and then without: the one
\* row of the url holds the second save
C14_Witness ==
    \E i, j \in TaskIds :
        /\ i # j
        /\ capture_urls[i] = capture_urls[j]
        /\ outcome[i] = "saved"
        /\ outcome[j] = "saved"
        /\ tasks[i].status = HTTP_OK
        /\ tasks[j].status = NoStatus
        /\ current = j
        /\ snapshots = {SnapshotOf(j)}

\* C18: a batch that launched the browser and has ended, normally or by an
\* exception at context creation, in a page task or in the result loop, has
\* closed the browser and with it the shared context.
C18_BrowserClosedAtEnd ==
    /\ (bpc \in {"done", "returned", "raised"} /\ browser # "none") =>
            (browser = "closed" /\ context # "open")
    /\ bpc = "raised" => (browser = "none" <=> error = "launch")
    /\ (bpc \in {"done", "returned"} /\ capture_urls # <<>>) =>
            (browser = "closed" /\ context = "closed")

\* C18 witness: a page task raised while another page was open; the batch has
\* ended with browser and context closed
C18_Witness ==
    /\ bpc = "raised"
    /\ error = "page"
    /\ browser = "closed"
    /\ context = "closed"
    /\ PagesOpen # {}

\* ------------------------------------------------------------ flow properties
DistinctUrls(seq) == \A i, j \in 1..Len(seq) : i # j => seq[i] # seq[j]

\* the asset rows the latest sync call wrote
Promoted == {a \in assets : a.updated_at = syncs}

AssetContent(rows) ==
    {[url |-> a.url, image |-> a.image, status_code |-> a.status_code] : a \in rows}

SyncPhase == fpc \in {"syncing", "synced", "returned"}

LoadClear == load.cpu < SCAN_CPU_HIGH /\ load.mem < SCAN_MEM_HIGH

C15_SyncAfterWrites ==
    /\ []((SyncPhase \/ spc = "rows") =>
            (cpc = "idle" /\ bpc \in {"idle", "returned"}))
    /\ [][(SyncPhase \/ fpc' = "syncing") => snapshots' = snapshots]_vars

\* C15 witness: the sync loop is running over the rows of a batch in which a
\* url failed
C15_Witness ==
    /\ fpc = "syncing"
    /\ spc = "rows"
    /\ sync_rows # {}
    /\ sync_rows = snapshots
    /\ stats.failed >= 1
    /\ bpc = "returned"

\* C16: wait_for_system_load returns only on a sample with cpu below the cpu
\* threshold and memory below the memory threshold; on any other sample it
\* sleeps; and until it has returned the flow has resolved no url and started
\* no capture.
C16_WaitReturnsOnClearSample ==
    /\ fpc = "collect" => LoadClear
    /\ fpc = "sleeping" => ~LoadClear
    /\ fpc \in {"waiting", "sleeping", "collect"} =>
        /\ rpc = "idle"
        /\ tried_sources = <<>>
        /\ result = NoResult
        /\ bpc = "idle"
        /\ capture_urls = <<>>
        /\ browser = "none"
    /\ (rpc # "idle" \/ bpc # "idle") => fpc \notin {"waiting", "sleeping", "collect"}

\* C16 witness: the wait returned on its third sample
C16_Witness ==
    /\ fpc = "collect"
    /\ polls = 3
    /\ LoadClear

\* C17: every sample of wait_for_system_load either is clear and ends the wait
\* at once, or is followed by a sleep and another sample, however many samples
\* were taken before: the wait has no timeout and no attempt limit.
C17_NoTimeout ==
    /\ [][fpc = "waiting" =>
            /\ polls' = polls + 1
            /\ fpc' = (IF load'.cpu < SCAN_CPU_HIGH /\ load'.mem < SCAN_MEM_HIGH
                       THEN "collect" ELSE "sleeping")]_vars
    /\ [][fpc = "sleeping" => fpc' = "waiting"]_vars

\* C17 witness: still waiting after MaxPolls samples
C17_Witness ==
    /\ fpc = "sleeping"
    /\ polls = MaxPolls
    /\ load.cpu < SCAN_CPU_HIGH
    /\ load.mem >= SCAN_MEM_HIGH

\* ------------------------------------------------------ default url generation
\* the urls the default source is to generate for the targets of the model
ExpectedDefaultUrls(name) ==
    CASE name = "example.com" -> <<"http://example.com", "https://example.com">>
      [] name = "10.0.0.1" -> <<"http://10.0.0.1", "https://10.0.0.1">>
      [] name = "10.0.0.0/30" ->
            <<"http://10.0.0.1", "https://10.0.0.1", "http://10.0.0.2", "https://10.0.0.2">>
      [] name = "10.0.0.2/31" ->
            <<"http://10.0.0.2", "https://10.0.0.2", "http://10.0.0.3", "https://10.0.0.3">>
      [] name = "10.0.0.1/32" -> <<"http://10.0.0.1", "https://10.0.0.1">>
      [] name = "http://example.com/login" -> <<"http://example.com/login">>
      [] OTHER -> <<>>

\* C19: before filtering, the default source generates for a DOMAIN or IP
\* target [http://name, https://name], for a CIDR target the http then https
\* url of every host address of the block in address order (two pairs for
\* 10.0.0.0/30, one pair for a single-address block), for a URL target the
\* name itself; what it yields is that list without the urls the filter rejects.
C19_DefaultUrlOrder ==
    /\ rpc = "default" => cur = ExpectedDefaultUrls(target.name)
    /\ (ChainEnded /\ tried_sources # <<>> /\ Last(tried_sources) = DEFAULT) =>
            urls = SelectSeq(ExpectedDefaultUrls(target.name),
                             LAMBDA u : is_allowed(rules, u))

\* C19 witness: 10.0.0.0/30 generated its two pairs, of which the filter
\* rejected the pair of 10.0.0.1
C19_Witness ==
    /\ rpc = "returned"
    /\ target.name = "10.0.0.0/30"
    /\ cur = <<"http://10.0.0.1", "https://10.0.0.1", "http://10.0.0.2", "https://10.0.0.2">>
    /\ result.urls = <<"http://10.0.0.2", "https://10.0.0.2">>
    /\ result.source = DEFAULT

\* ------------------------------------------------------------ host expansion
\* the hosts a raw host string is to expand to, for the strings the statement
\* covers: blocks of four or more addresses, the single-address block, an
\* address, a domain (also written with surrounding blanks), malformed strings
ClaimedExpansion(host) ==
    CASE host = "10.0.0.0/29" ->
            <<"10.0.0.1", "10.0.0.2", "10.0.0.3", "10.0.0.4", "10.0.0.5", "10.0.0.6">>
      [] host = "10.0.0.0/30" -> <<"10.0.0.1", "10.0.0.2">>
      [] host = "10.0.0.1/32" -> <<"10.0.0.1">>
      [] host = "10.0.0.1" -> <<"10.0.0.1">>
      [] host \in {"example.com", " example.com "} -> <<"example.com">>
      [] host \in {"10.0.0.0/33", "not a host", "  "} -> <<>>

ClaimCovers ==
    { "example.com", " example.com ", "10.0.0.1", "10.0.0.0/29", "10.0.0.0/30",
      "10.0.0.1/32", "10.0.0.0/33", "not a host", "  " }

\* C20: _expand_host yields for a block of several usable addresses its host
\* addresses without network and broadcast address, for a single-address block
\* that address, for an address or domain the string, for a malformed string
\* nothing; iter_hosts never stops at a malformed host: every raw host is
\* visited and the hosts after a malformed one are expanded as usual.
C20_ExpandHost ==
    /\ hpc \in {"idle", "loop", "done"}
    /\ hpc # "idle" => Len(expanded) = hpos - 1
    /\ hpc = "done" => Len(expanded) = Len(raw_hosts)
    /\ \A i \in 1..Len(expanded) :
        raw_hosts[i] \in ClaimCovers => expanded[i] = ClaimedExpansion(raw_hosts[i])

\* C20 witness: a block expanded after a malformed host
C20_Witness ==
    /\ hpc = "done"
    /\ raw_hosts = <<"not a host", "10.0.0.0/30">>
    /\ expanded = << <<>>, <<"10.0.0.1", "10.0.0.2">> >>
\* C21: every host iter_hosts yields, and so every line export_hosts_task
\* writes, is allowed by the provider's own blacklist filter, whichever
\* provider runs.
C21_WrittenHostsAllowed ==
    \A i \in 1..Len(written) : is_allowed(host_rules, written[i])

\* the default source of the chain was consumed
DefaultTried == \E i \in 1..Len(tried_sources) : tried_sources[i] = DEFAULT

\* the target row exists and its type is none of DOMAIN, IP, CIDR, URL
UnsupportedTarget == target.exists /\ target.type \notin {"DOMAIN", "IP", "CIDR", "URL"}

\* C22: a target of an unsupported type is signalled to the caller as an
\* error on the default-url path: the resolver never returns a normal result
\* after its default source ran on such a target.
C22_UnsupportedTypeSignalled ==
    (rpc = "returned" /\ DefaultTried) => ~UnsupportedTarget

\* C23: when the resolver produced no url the flow is at its early return or
\* has returned the all-zero success result: no capture task, no browser, no
\* snapshot, no sync step of the flow, no failure. A capture task or a
\* capture_batch called on an empty url list yields nothing and launches no
\* browser; the task returns all-zero counters.
C23_NoUrlsIsSuccessfulNoOp ==
    /\ (fpc # "idle" /\ rpc = "returned" /\ result.urls = <<>>) =>
        /\ fpc \in {"resolving", "returned"}
        /\ fpc = "returned" => flow_result = EmptyFlowResult
        /\ bpc = "idle"
        /\ browser = "none"
        /\ context = "none"
        /\ tasks = <<>>
        /\ snapshots = {}
        /\ stats = NoStats
    /\ (fpc = "idle" /\ capture_urls = <<>>) =>
        /\ bpc \in {"start", "batch_empty", "returned"}
        /\ browser = "none"
        /\ context = "none"
        /\ tasks = <<>>
        /\ emitted = <<>>
        /\ snapshots = {}
        /\ error = ""
        /\ bpc = "returned" => stats = [total |-> 0, successful |-> 0, failed |-> 0]

\* C23 witness: the flow returned the empty result after a chain whose only
\* candidates were filtered
C23_Witness ==
    /\ fpc = "returned"
    /\ syncs = 0
    /\ result.urls = <<>>
    /\ result.tried_sources # <<>>
    /\ flow_result = EmptyFlowResult
    /\ bpc = "idle"

\* C24: when the browser launch or the creation of the shared context fails,
\* no page task exists, no result is yielded, no snapshot is written, the
\* capture task ends by raising, and the flow is waiting for it or has failed:
\* it never reaches the sync step or a normal return.
C24_SessionFailureIsFatal ==
    error \in {"launch", "context"} =>
        /\ bpc \in {"closing_browser", "raised"}
        /\ fpc \in {"capturing", "failed"}
        /\ tasks = <<>>
        /\ emitted = <<>>
        /\ save_log = <<>>
        /\ snapshots = {}
        /\ successful = 0
        /\ stats = NoStats
        /\ spc = "idle"
        /\ syncs = 0
        /\ synced = -1
        /\ flow_result = NoFlowResult
        /\ error = "launch" => browser = "none"
        /\ (error = "context" /\ bpc = "raised") => browser = "closed"

\* C24 witness: the flow failed after new_context raised
C24_Witness ==
    /\ fpc = "failed"
    /\ error = "context"
    /\ bpc = "raised"
    /\ Len(capture_urls) = 2

\* C24 witness: the flow failed after the launch raised
C24_WitnessLaunch ==
    /\ fpc = "failed"
    /\ error = "launch"

\* C25: a task whose navigation raised goes on to the screenshot on the same
\* page and never ends with that error; its status is absent, and when the
\* screenshot succeeded its result carries the image bytes with an absent
\* status.
C25_NavigationErrorStillShoots ==
    \A i \in 1..Len(tasks) :
        tasks[i].nav = "raised" =>
            /\ tasks[i].st \in {"shooting", "closing"}
            /\ tasks[i].status_code = NoStatus
            /\ tasks[i].st = "closing" =>
                /\ tasks[i].status = NoStatus
                /\ tasks[i].bytes \in {"jpeg", "corrupt", NoBytes}

\* C25 witness: navigation raised and the screenshot then succeeded
C25_Witness ==
    \E i \in 1..Len(tasks) :
        /\ tasks[i].nav = "raised"
        /\ tasks[i].st = "closing"
        /\ tasks[i].bytes = "jpeg"
        /\ tasks[i].status = NoStatus

\* the delays 2 ** attempt of the first n attempts of the retry loop
BackoffDelays(n) == [k \in 1..n |-> Pow2(k - 1)]

PermitHolders == InFlight

\* C27: a page is open only inside the task that opened it, which holds a
\* permit meanwhile; a task that ended has closed its page and given its
\* permit back; and when the batch has ended, normally or by an exception, no
\* page is open and all N permits are available.
C27_PagesClosedPermitsReleased ==
    tasks # <<>> =>
        /\ PagesOpen \subseteq PermitHolders
        /\ permits + Cardinality(PermitHolders) = concurrency
        /\ bpc \in {"done", "returned", "raised"} =>
            /\ PagesOpen = {}
            /\ permits = concurrency

\* the encodings that are within the budget
Fitting == {k \in 1..Len(encodings) : encodings[k].ok /\ encodings[k].size <= Budget}

\* C28: the compressor encodes at 80, 70, ..., 10 in that order; no encoding
\* follows one that is within the budget; unless an encoding raised, it
\* returns the last encoding made, which is the first one within the budget
\* or else the one of quality 10; so the result is within the budget whenever
\* some encoding made is.
C28_FirstFitOrLowestQuality ==
    /\ Len(encodings) <= 8
    /\ \A k \in 1..Len(encodings) :
        /\ encodings[k].quality = FirstQuality - QualityStep * (k - 1)
        /\ k < Len(encodings) => (encodings[k].ok /\ encodings[k].size > Budget)
    /\ zpc = "returned" =>
        LET last == encodings[Len(encodings)] IN
        IF ~last.ok THEN webp.kind = "None"
        ELSE /\ webp = [kind |-> "bytes", quality |-> last.quality, size |-> last.size]
             /\ \/ webp.size <= Budget
                \/ webp.quality = LastQuality
             /\ Fitting # {} => webp.size <= Budget

\* C28 witness: the seventh encoding, at quality 20, is the first one within
\* the budget and is returned
C28_Witness ==
    /\ zpc = "returned"
    /\ target_kb = 1
    /\ Len(encodings) = 7
    /\ webp = [kind |-> "bytes", quality |-> 20, size |-> 1024]

\* C28 witness: no quality fits, the encoding of quality 10 is returned
C28_WitnessOverBudget ==
    /\ zpc = "returned"
    /\ Len(encodings) = 8
    /\ Fitting = {}
    /\ webp.kind = "bytes"
    /\ webp.quality = 10
    /\ webp.size > Budget

\* the retry wrapper is running for result i
InWrapper(i) == cpc # "idle" /\ current = i

Compressible(i) == compress_from_bytes(tasks[i].bytes) # NoBytes

\* C29: the retry wrapper starts in the very step in which a result with a
\* compressed image is taken from capture_batch, and in no other step, and a
\* result is taken at most once: one invocation per such result. A result
\* whose capture or compression failed is counted as failed in the step that
\* takes it, without a wrapper invocation or a save call, then or later.
C29_WrapperOncePerCompressed ==
    /\ [](\A i \in 1..Len(emitted) :
            /\ emitted[i] <= 1
            /\ InWrapper(i) => (emitted[i] = 1 /\ Compressible(i) /\ outcome[i] = "pending")
            /\ outcome[i] \in {"saved", "save_failed"} => Compressible(i)
            /\ outcome[i] \in {"capture_failed", "compress_failed"} =>
                    (~Compressible(i) /\ ~InWrapper(i)))
    /\ [][\A i \in 1..Len(emitted) :
            Len(emitted') = Len(emitted) =>
                /\ (emitted[i] = 0 /\ emitted'[i] = 1) =>
                        IF Compressible(i)
                        THEN /\ cpc = "idle"
                             /\ cpc' = "saving"
                             /\ current' = i
                             /\ save_log' = <<>>
                             /\ UNCHANGED <<successful, failed>>
                        ELSE /\ cpc' = "idle"
                             /\ failed' = failed + 1
                             /\ outcome'[i] \in {"capture_failed", "compress_failed"}
                             /\ UNCHANGED <<save_log, snapshots, successful>>
                /\ (~InWrapper(i) /\ InWrapper(i)') => (emitted[i] = 0 /\ emitted'[i] = 1)
                /\ (save_log' # save_log /\ save_log' # <<>>) => (InWrapper(current) /\ current' = current)
      ]_vars

\* C29 witness: the wrapper runs for a compressed result after a capture
\* failure and a compression failure were counted without any save call
C29_Witness ==
    /\ Len(outcome) = 2
    /\ outcome[1] = "compress_failed"
    /\ failed = 1
    /\ InWrapper(2)
    /\ save_log = <<>>
    /\ snapshots = {}

\* the chain is past its default source: the source at idx is DEFAULT and its
\* urls have been gone through
PastDefault == idx >= 1 /\ sources[idx] = DEFAULT /\ rpc # "default"

\* C30: for a missing target the default source yields no url and leaves
\* has_raw_data false, the chain goes on with the next listed source, and it
\* ends there only when default was the last source, with empty output; for
\* an existing target the chain ends at the default source, filtered or not.
C30_DefaultSourceAndMissingTarget ==
    /\ ~target.exists =>
        /\ \A k \in 1..Len(yielded) : yielded[k].source # DEFAULT
        /\ PastDefault =>
            /\ ~has_raw_data
            /\ rpc \in {"loop", "done", "returned"}
            /\ rpc \in {"done", "returned"} => (idx = Len(sources) /\ urls = <<>>)
    /\ target.exists =>
        /\ PastDefault =>
            /\ rpc \in {"done", "returned"}
            /\ has_raw_data
            /\ tried_sources = SubSeq(sources, 1, idx)
        /\ \A k \in 1..(Len(tried_sources) - 1) : tried_sources[k] # DEFAULT

\* C30 witness: the target is missing, the chain went past default and took
\* its urls from the source listed after it
C30_Witness ==
    /\ ~target.exists
    /\ rpc = "returned"
    /\ Len(sources) = 2
    /\ sources[1] = DEFAULT
    /\ result.tried_sources = sources
    /\ result.urls # <<>>

\* C30 witness: the target exists, all default urls were filtered, and the
\* chain ended at default with a further source listed
C30_WitnessFiltered ==
    /\ target.exists
    /\ rpc = "returned"
    /\ Len(sources) = 2
    /\ sources[1] = DEFAULT
    /\ DefaultUrlList(target) # <<>>
    /\ result.tried_sources = <<DEFAULT>>
    /\ result.urls = <<>>

\* url_sources names a configuration may list: the two mapped ones and an
\* unknown one
UrlSourceNames == {"websites", "endpoints", "ports"}

\* every source before the last one is a query source or an unknown one and
\* holds no raw candidate
EarlierSourcesEmpty ==
    \A i \in 1..(Len(sources) - 1) :
        sources[i] # DEFAULT /\ RawCandidates(sources[i]) = <<>>

MappedListsEndWithDefault ==
    \A us \in SeqsUpTo(UrlSourceNames, 2) :
        LET ds == map_url_sources_to_data_sources(us) IN
        /\ ds # <<>>
        /\ ds[Len(ds)] = DEFAULT
        /\ \A i \in 1..(Len(ds) - 1) : ds[i] \in QueryTables

Persisting == cpc \in {"saving", "backoff"}

\* the next step of page task i can be taken now
CanAdvance(i) ==
    CASE tasks[i].st = "opening" -> ENABLED OpenPage(i)
      [] tasks[i].st = "navigating" -> ENABLED Goto(i)
      [] tasks[i].st = "shooting" -> ENABLED Screenshot(i)
      [] tasks[i].st = "closing" -> ENABLED ClosePage(i)
      [] OTHER -> TRUE

\* C33: while a persistence call or one of its backoff sleeps is in progress,
\* every admitted page task can take its next step and every waiting task can
\* take a permit as soon as one is free: no page fetch waits for the save.
C33_SaveDoesNotBlockPages ==
    Persisting =>
        /\ bpc = "running"
        /\ \A i \in InFlight : CanAdvance(i)
        /\ \A i \in TaskIds :
            (tasks[i].st = "waiting" /\ permits > 0) => ENABLED Acquire(i)

\* during a backoff sleep for the first result the second page task is
\* navigating
C33_Witness ==
    /\ cpc = "backoff"
    /\ Len(tasks) = 2
    /\ current = 1
    /\ tasks[2].st = "navigating"

\* during a persistence call a waiting task has a freed permit to take
C33_WitnessAdmit ==
    /\ cpc = "saving"
    /\ Len(tasks) = 2
    /\ concurrency = 1
    /\ permits = 1
    /\ tasks[2].st = "waiting"

\* how far a page task has got in _capture_with_semaphore
Stage(st) ==
    CASE st = "waiting" -> 0
      [] st = "opening" -> 1
      [] st = "navigating" -> 2
      [] st = "shooting" -> 3
      [] st = "closing" -> 4
      [] OTHER -> 5

\* C34: the capture engine never retries a url. One page task is made per
\* submitted url occurrence, a task only moves forward through open, navigate,
\* screenshot and close, so it navigates at most once and shoots at most once
\* whatever the outcome, and each occurrence is yielded at most once; only the
\* save is attempted more than once.
C34_NoCaptureRetry ==
    /\ [](tasks # <<>> =>
            /\ Len(tasks) = Len(capture_urls)
            /\ \A i \in TaskIds : emitted[i] <= 1)
    /\ [][/\ tasks # <<>> => tasks' # <<>> /\ Len(tasks') = Len(tasks)
          /\ \A i \in TaskIds :
                /\ Stage(tasks'[i].st) >= Stage(tasks[i].st)
                /\ tasks'[i] # tasks[i] => Stage(tasks'[i].st) > Stage(tasks[i].st)]_vars

\* the same url submitted twice: the first occurrence's screenshot failed and
\* was yielded once without another attempt, the second occurrence's save is
\* in its third attempt
C34_Witness ==
    /\ Len(tasks) = 2
    /\ capture_urls[1] = capture_urls[2]
    /\ tasks[1].st = "finished"
    /\ tasks[1].bytes = NoBytes
    /\ emitted[1] = 1
    /\ outcome[1] = "capture_failed"
    /\ current = 2
    /\ cpc = "saving"
    /\ Len(save_log) = 2

\* variant of check_system_load that reports overload only above a threshold
check_system_load_Strict(sample, cpu_threshold, mem_threshold) ==
    [cpu_percent |-> sample.cpu, mem_percent |-> sample.mem,
     cpu_threshold |-> cpu_threshold, mem_threshold |-> mem_threshold,
     is_overloaded |-> sample.cpu > cpu_threshold \/ sample.mem > mem_threshold]

\* check_system_load on one sample of _get_current_load
check_system_load(sample, cpu_threshold, mem_threshold) ==
    [cpu_percent |-> sample.cpu, mem_percent |-> sample.mem,
     cpu_threshold |-> cpu_threshold, mem_threshold |-> mem_threshold,
     is_overloaded |-> sample.cpu >= cpu_threshold \/ sample.mem >= mem_threshold]

\* wait_for_system_load took the sample and did not return on it: it sleeps, or
\* is about to sample again
WaitHeldBack == fpc \in {"sleeping", "waiting"}

\* C35: on the sample wait_for_system_load last took, check_system_load with
\* the same thresholds reports is_overloaded exactly when the wait did not
\* return on it; a cpu or memory value equal to its threshold is overloaded
\* for both.
C35_CheckAgreesWithWait ==
    load # NoLoad =>
        LET report == check_system_load(load, SCAN_CPU_HIGH, SCAN_MEM_HIGH) IN
        /\ report.is_overloaded <=> WaitHeldBack
        /\ (load.cpu = SCAN_CPU_HIGH \/ load.mem = SCAN_MEM_HIGH) =>
            /\ report.is_overloaded
            /\ WaitHeldBack

\* the wait sleeps on a sample whose cpu equals the threshold and whose memory
\* is below it
C35_Witness ==
    /\ fpc = "sleeping"
    /\ load # NoLoad
    /\ load.cpu = SCAN_CPU_HIGH
    /\ load.mem < SCAN_MEM_HIGH
    /\ check_system_load(load, SCAN_CPU_HIGH, SCAN_MEM_HIGH).is_overloaded

\* the wait returned on a sample below both thresholds
C35_WitnessClear ==
    /\ fpc = "collect"
    /\ load # NoLoad
    /\ ~check_system_load(load, SCAN_CPU_HIGH, SCAN_MEM_HIGH).is_overloaded

\* the table of query source s holds rows, and every row's url is empty or null
OnlyEmptyRows(s) == s \in QueryTables /\ db[s] # <<>> /\ NonEmptyUrls(db[s]) = <<>>

\* C36: a query source whose rows all have an empty or null url is treated as
\* having no raw data: nothing is yielded from it and, when the chain has
\* ended, it was the last source tried only if it is the last one listed; an
\* empty url is never yielded, collected or written by any source.
C36_EmptyRowsAreNoData ==
    /\ \A k \in 1..Len(yielded) : yielded[k].url # ""
    /\ \A k \in 1..Len(urls) : urls[k] # ""
    /\ \A k \in 1..Len(sink_lines) : sink_lines[k] # ""
    /\ \A i \in 1..Len(tried_sources) :
        OnlyEmptyRows(tried_sources[i]) =>
            /\ \A k \in 1..Len(yielded) : yielded[k].at # i
            /\ (rpc \in {"rows", "default"} /\ idx = i) => (~has_raw_data /\ ~has_output)
            /\ ChainEnded => (i < Len(sources) => Len(tried_sources) > i)

\* the endpoint table holds two rows with empty urls; the chain went on to the
\* website table and returned its url
C36_Witness ==
    /\ rpc = "returned"
    /\ db[ENDPOINT] = <<"", "">>
    /\ tried_sources = <<ENDPOINT, WEBSITE>>
    /\ result.source = WEBSITE
    /\ result.total_count = 1

\* the lines of the output file as a set
LinesWritten == {output_lines[k] : k \in 1..Len(output_lines)}

\* the usable hosts of the block target_name names
UsableHosts == {HostList(ip_network(target_name))[k] :
                    k \in 1..Len(HostList(ip_network(target_name)))}

SingleAddressBlock == NumAddresses(ip_network(target_name)) = 1

\* C37: _export_cidr writes only usable hosts of the block that the blacklist
\* allows; the network address of a block larger than a single address, where
\* it is not a usable host, is never written, also when the blacklist rejects
\* every usable host.
C37_OnlyAllowedUsableHosts ==
    epc \in {"hosts", "returned"} =>
        /\ \A h \in LinesWritten : should_write_target(h)
        /\ LinesWritten \subseteq UsableHosts
        /\ (~SingleAddressBlock
                /\ IpStr(NetworkAddress(ip_network(target_name))) \notin UsableHosts)
              => IpStr(NetworkAddress(ip_network(target_name))) \notin LinesWritten
        /\ host_count = Len(output_lines)

\* 10.0.0.0/30 with both usable hosts blacklisted: the export returned with
\* the network address as its only line
C37_NetworkAddressWritten ==
    /\ epc = "returned"
    /\ target_name = "10.0.0.0/30"
    /\ blacklist_filter = {"10\\.0\\.0\\.1$", "10\\.0\\.0\\.2$"}
    /\ output_lines = <<"10.0.0.0">>
    /\ host_count = 1

\* results taken from capture_batch whose handling by the consumer is not over
Unsettled == {i \in 1..Len(emitted) : emitted[i] > 0 /\ outcome[i] = "pending"}

\* C38: at most one persistence call is in progress at any time. The results
\* taken and not yet settled are exactly the one the retry wrapper runs for:
\* none while the consumer is idle, one during a save or a backoff sleep, and
\* every result taken before it is settled; meanwhile at most N page tasks
\* are in flight.
C38_OnePersistenceAtATime ==
    tasks # <<>> =>
        /\ Cardinality(Unsettled) <= 1
        /\ cpc = "idle" => Unsettled = {}
        /\ Persisting =>
            /\ Unsettled = {current}
            /\ Len(save_log) = attempt + (IF cpc = "backoff" THEN 1 ELSE 0)
            /\ attempt < max_retries
        /\ Cardinality(InFlight) <= concurrency

\* during the backoff after the second failed save of the first result, the
\* second result waits completed and untaken
C38_Witness ==
    /\ cpc = "backoff"
    /\ Len(tasks) = 2
    /\ current = 1
    /\ Len(save_log) = 2
    /\ tasks[2].st = "finished"
    /\ emitted[2] = 0
    /\ completed = <<2>>

\* a save in progress while N = 1 page task is in flight
C38_WitnessConcurrent ==
    /\ cpc = "saving"
    /\ concurrency = 1
    /\ Cardinality(InFlight) = 1

\* the batch is over with every result yielded, all permits back and the
\* browser closed (for an empty url list nothing is launched)
AllYieldedAndReleased ==
    \/ capture_urls = <<>> /\ bpc \in {"batch_empty", "returned"}
    \/ /\ capture_urls # <<>>
       /\ bpc \in {"done", "returned"}
       /\ \A i \in 1..Len(capture_urls) : emitted[i] = 1
       /\ permits = concurrency
       /\ browser = "closed"

\* the batch ended by the exception of an operation of the browser session:
\* launch, new_context, or a page task
OperationRaised == bpc = "raised" /\ error \in {"launch", "context", "page"}

\* C39: for every concurrency value of the configuration and every url list,
\* when every operation terminates, the batch terminates with every result
\* yielded, all permits back and the browser closed, unless an operation of
\* the browser session raised.
C39_BatchTerminates == <>(AllYieldedAndReleased \/ OperationRaised)

\* concurrency 0: the browser is open, every page task waits for a permit that
\* no task holds, and nothing was yielded
C39_NoPermitEver ==
    /\ bpc = "running"
    /\ concurrency = 0
    /\ permits = 0
    /\ tasks # <<>>
    /\ \A i \in TaskIds : tasks[i].st = "waiting"
    /\ completed = <<>>
    /\ browser = "open"

\* with a positive concurrency the batch terminates
C39_TerminatesWithPermits ==
    concurrency >= 1 ~> (AllYieldedAndReleased \/ OperationRaised)

\* the exception of a page task has left the as_completed loop: the browser
\* is being closed or has been closed
EndedByPageTask == bpc \in {"closing_browser", "raised"} /\ error = "page"

\* page tasks that have neither returned nor raised
LiveTasks == {i \in TaskIds : tasks[i].st \notin {"finished", "error"}}

\* C40: when capture_batch ends by the exception of a page task, every other
\* page task has ended before the browser is closed: from the moment
\* browser.close() is called no task waits for a permit, opens a page or is
\* inside a page operation.
C40_NoTaskOutlivesBrowser == EndedByPageTask => LiveTasks = {}

\* the first page task raised in new_page; the browser is closed while the
\* second task, admitted with the permit the first gave back, is inside
\* page.screenshot
C40_TaskOutlivesBrowser ==
    /\ bpc = "raised"
    /\ error = "page"
    /\ browser = "closed"
    /\ Len(tasks) = 2
    /\ concurrency = 1
    /\ tasks[1].st = "error"
    /\ tasks[2].st = "shooting"

====
